---- MODULE Spec2Model ----
(***************************************************************************)
(* Capture sessions of SnackaCaptureWindows: the audio loopback capturer,  *)
(* the display (desktop duplication) capturer and the window capturer,     *)
(* each with the thread (or OS delivery) that runs its capture code, the   *)
(* client that calls Initialize / Start / Stop / the destructor, and the   *)
(* command-line driver Capture() of main.cpp.                              *)
(*                                                                         *)
(* One session is modelled at a time; its type is `kind`.  Sessions share  *)
(* no state in the source (every capturer owns its device, context and     *)
(* handles), so the variables of the other two capturers keep their        *)
(* constructor values.                                                     *)
(***************************************************************************)
EXTENDS Integers, Sequences, FiniteSets, TLC

\* ------------------------------------------------------------------ bounds
\* worker threads a display session may have alive at once (Start detaches
\* a new thread each time it passes its guard)
MaxThreads == 2
\* distinct callbacks a client may pass to Start
NumCallbacks == 2

Kinds == {"audio", "display", "window"}
Callbacks == 1..NumCallbacks
Threads == 1..MaxThreads

VARIABLES
    kind,            \* capturer type of the session
    client,          \* "api": a client calling the public methods in any order; "main": Capture() of main.cpp
    c_pc,            \* client position: "idle", or inside a blocking Stop ("Stop") or destructor ("dtor")
    main_pc,         \* position of Capture() in main.cpp
    g_running,       \* main.cpp g_running
    initState,       \* "none": Initialize not called; "failed"/"ok": what Initialize returned
    m_running,       \* std::atomic<bool> m_running
    m_callback,      \* registered callback, 0 = empty std::function
    lastCall,        \* the last Start or Stop call that returned: "none", "started", "rejected" (Start returned at its guard),
                     \* "stopped", "stoppedAgain" (a Stop that returned after another Stop with no Start in between)
    destroyed,       \* the destructor has returned
    fault,           \* "none", or "crashed": the process was terminated (access violation, std::terminate)
    \* ---- AudioCapturer
    m_audioClient,   \* "null", "uninit" (activated), "ready" (initialized, stopped), "started"
    m_captureClient, \* IAudioCaptureClient present
    m_captureThread, \* "none" (not joinable), "alive", "finished" (exited, joinable)
    a_pc,            \* position of CaptureLoop
    packetLength,    \* CaptureLoop local: packetLength > 0
    outputEmpty,     \* m_outputBuffer.empty()
    loopExit,        \* why CaptureLoop last left its while loop: "none", "stopped", "fatal"
    \* ---- DisplayCapturer
    m_output,        \* IDXGIOutput1 present
    m_duplication,   \* IDXGIOutputDuplication present
    dupHandles,      \* duplication handles the session has created and not released
    d_pc,            \* position of each CaptureLoop thread, "none" = no thread in the slot
    d_hr,            \* per thread: what left the current tick without a frame: the failure the OS acquisition returned
                     \* ("timeout", "lost", "fail") or a Convert that returned nullptr ("convert"); "none" otherwise
    d_reinits,       \* per thread: ReinitializeDuplication calls in the current tick
    \* ---- video sessions
    m_colorConverter,\* "null", "uninit" (Initialize failed), "ready"
    m_needsScaling,
    \* ---- WindowCapturer
    m_session,       \* GraphicsCaptureSession handle present
    m_framePool,     \* frame pool handle present
    m_captureItem,
    subscribed,      \* FrameArrived handler registered on the pool
    capturing,       \* StartCapture was called on the OS session and it is not closed
    w_pc,            \* position of an OS frame delivery (OnFrameArrived), "none" = no delivery in flight
    \* ---- AudioCapturer, the data of one loop iteration
    ad_pc,           \* "off", "start", "idle", "have" (GetBuffer returned), "filled" (m_outputBuffer written),
                     \* "emitted" (callback invoked), "skipped" (empty output), "crashed"
    m_sampleRate,    \* mix format, set by Initialize
    m_channels,
    m_bitsPerSample,
    m_isFloat,
    numFrames,       \* frames of the buffer GetBuffer returned
    silent,          \* AUDCLNT_BUFFERFLAGS_SILENT of that buffer
    data,            \* its frames, each a sequence of m_channels native samples
    timestamp,       \* milliseconds since the first buffer
    m_outputBuffer,  \* interleaved stereo int16 samples
    srcReads,        \* frame indices of m_resampleBuffer the resampling loop read for the buffer
    packet,          \* what the callback last received: header, payload, size, timestamp
    \* ---- DisplayCapturer / WindowCapturer, the data of one frame
    v_pc,            \* "off", "start", "idle", "frame" (frame acquired), "copied", "lost"
    m_width,         \* requested size
    m_height,
    nativeWidth,     \* size of the captured display or window
    nativeHeight,
    m_nv12Size,      \* ColorConverter's output size, set by its Initialize
    desktopTexture,  \* the acquired frame: [w, h, pix]
    processTexture,  \* the texture handed to ColorConverter::Convert
    v_call,          \* what the callback last received: size
    nv12Copies,      \* the bytes the last Convert copied: <<offset in m_nv12Buffer, offset in the mapped texture>>
    \* ---- clocks and the values read from them
    now,             \* the monotonic clock (steady_clock, QueryPerformanceCounter), in ticks
    p_pc,            \* DisplayCapturer::CaptureLoop followed for its frame rate limiting: "off", "check",
                     \* "body", "limit", "sleeping", "behind"
    frameDuration,   \* CaptureLoop local: the frame period
    nextFrameTime,   \* CaptureLoop local: the scheduled tick
    wakeAt,          \* the earliest time sleep_for returns
    resetAt,         \* the time the schedule was reset to by the last iteration, -1 if that iteration slept
    m_startTime,     \* AudioCapturer::m_startTime
    a_timestamp,     \* CaptureLoop local of the audio thread: timestamp of the buffer, -1 = none
    d_timestamp,     \* CaptureLoop local of each display thread: timestamp of the frame, -1 = none
    lastTimestamp,   \* the timestamp the callback last received since Start, -1 = none
    \* ---- the frames of the desktop duplication
    framesOut,       \* display threads whose acquired frame the duplication handle has outstanding
    \* ---- the renderer libraries (SnackaWindowsRenderer, SnackaLinuxRenderer)
    platform,        \* "off", or the library the process loaded: "windows" (CApi.cpp), "linux" (capi.c)
    s_instances,     \* the instance registry: the handles it holds (a handle is its decoder's address)
    heap,            \* per address: the decoder allocated there, or Freed
    r_pc,            \* per calling thread: Idle, or the call it is inside, past the registry lookup
    r_ret,           \* the call that returned last: operation, handle, result
    r_fault          \* "none", or the undefined behaviour that happened: "uaf", "doublefree"

clientVars == <<kind, client, c_pc, main_pc, g_running>>
sessVars == <<initState, m_running, m_callback, lastCall, destroyed, fault>>
audioVars == <<m_audioClient, m_captureClient, m_captureThread, a_pc, packetLength,
               outputEmpty, loopExit>>
displayVars == <<m_output, m_duplication, dupHandles, d_pc, d_hr, d_reinits>>
videoVars == <<m_colorConverter, m_needsScaling>>
windowVars == <<m_session, m_framePool, m_captureItem, subscribed, capturing, w_pc>>
\* the data one loop iteration of the audio capturer works on
audioDataVars == <<ad_pc, m_sampleRate, m_channels, m_bitsPerSample, m_isFloat,
                   numFrames, silent, data, timestamp, m_outputBuffer, srcReads, packet>>
\* the data one captured frame of the display or window capturer goes through
videoDataVars == <<v_pc, m_width, m_height, nativeWidth, nativeHeight, m_nv12Size,
                   desktopTexture, processTexture, v_call, nv12Copies>>
paceVars == <<p_pc, frameDuration, nextFrameTime, wakeAt, resetAt>>
stampVars == <<m_startTime, a_timestamp, d_timestamp, lastTimestamp>>
timeVars == <<now, paceVars, stampVars>>
frameVars == <<framesOut>>
rendererVars == <<platform, s_instances, heap, r_pc, r_ret, r_fault>>
extVars == <<frameVars, rendererVars>>
dataVars == <<audioDataVars, videoDataVars, timeVars, extVars>>
vars == <<clientVars, sessVars, audioVars, displayVars, videoVars, windowVars, dataVars>>

\* the members Stop, Start and the capture code act on (everything but the
\* client's own position and the bookkeeping of calls)
objectVars == <<initState, m_running, m_callback, destroyed, fault,
                audioVars, displayVars, videoVars, windowVars>>

\* ------------------------------------------------------------ construction
InitCapture ==
    /\ kind \in Kinds
    /\ c_pc = "idle"
    /\ g_running = TRUE
    /\ initState = "none"
    /\ m_running = FALSE
    /\ m_callback = 0
    /\ lastCall = "none"
    /\ destroyed = FALSE
    /\ fault = "none"
    /\ m_audioClient = "null"
    /\ m_captureClient = FALSE
    /\ m_captureThread = "none"
    /\ a_pc = "none"
    /\ packetLength = FALSE
    /\ outputEmpty = TRUE
    /\ loopExit = "none"
    /\ m_output = FALSE
    /\ m_duplication = FALSE
    /\ dupHandles = 0
    /\ d_pc = [t \in Threads |-> "none"]
    /\ d_hr = [t \in Threads |-> "none"]
    /\ d_reinits = [t \in Threads |-> 0]
    /\ m_colorConverter = "null"
    /\ m_needsScaling = FALSE
    /\ m_session = FALSE
    /\ m_framePool = FALSE
    /\ m_captureItem = FALSE
    /\ subscribed = FALSE
    /\ capturing = FALSE
    /\ w_pc = "none"

\* no buffer is followed through the audio loop
AudioDataOff ==
    /\ ad_pc = "off"
    /\ m_sampleRate = 0
    /\ m_channels = 0
    /\ m_bitsPerSample = 0
    /\ m_isFloat = FALSE
    /\ numFrames = 0
    /\ silent = FALSE
    /\ data = <<>>
    /\ timestamp = 0
    /\ m_outputBuffer = <<>>
    /\ srcReads = {}
    /\ packet = <<>>

\* no frame is followed through the video pipeline
VideoDataOff ==
    /\ v_pc = "off"
    /\ m_width = 0
    /\ m_height = 0
    /\ nativeWidth = 0
    /\ nativeHeight = 0
    /\ m_nv12Size = 0
    /\ desktopTexture = <<>>
    /\ processTexture = <<>>
    /\ v_call = <<>>
    /\ nv12Copies = {}

\* no pacing schedule is followed
PaceOff ==
    /\ p_pc = "off"
    /\ frameDuration = 1
    /\ nextFrameTime = 0
    /\ wakeAt = 0
    /\ resetAt = -1

\* no timestamp was taken
StampsOff ==
    /\ m_startTime = 0
    /\ a_timestamp = -1
    /\ d_timestamp = [t \in Threads |-> -1]
    /\ lastTimestamp = -1

\* the clock is not followed
TimeOff ==
    /\ now = 0
    /\ PaceOff
    /\ StampsOff

\* no frame of the duplication is followed
FramesOff == framesOut = {}

\* bounds of the renderer libraries: addresses a decoder can be allocated
\* at, and configurations (width, height, SPS, PPS) Initialize is called with
MaxHandles == 1
MaxConfig == 2

Handles == 1..MaxHandles
NullHandle == 0
Configs == 1..MaxConfig
\* the thread that destroys and the thread that calls another operation
Callers == {"t1", "t2"}

\* memory no decoder is allocated in
Freed ==
    [alloc |-> FALSE, initialized |-> FALSE, config |-> 0, renderer |-> FALSE,
     decoded |-> FALSE, initReturnedTrue |-> FALSE]

Idle == [op |-> "idle", dec |-> NullHandle, cfg |-> 0]
NoCall == [op |-> "none", h |-> NullHandle, res |-> "none"]

\* no renderer library is loaded
RendererOff ==
    /\ platform = "off"
    /\ s_instances = {}
    /\ heap = [h \in Handles |-> Freed]
    /\ r_pc = [t \in Callers |-> Idle]
    /\ r_ret = NoCall
    /\ r_fault = "none"

ExtOff == FramesOff /\ RendererOff

InitCommon ==
    /\ InitCapture
    /\ AudioDataOff
    /\ VideoDataOff
    /\ TimeOff
    /\ ExtOff

Init ==
    /\ InitCommon
    /\ client = "api"
    /\ main_pc = "none"

\* a Stop call has returned and Start was not called since
stopReturned == lastCall \in {"stopped", "stoppedAgain"}

\* a Stop call returns
StopReturns ==
    lastCall' = IF stopReturned THEN "stoppedAgain" ELSE "stopped"

\* the process is alive
Alive == fault # "crashed" /\ main_pc # "exit"

\* the user callback runs; the callbacks of main.cpp clear g_running when
\* their write fails
InvokeCallback ==
    g_running' \in (IF client = "main" THEN {g_running, FALSE} ELSE {g_running})

\* ===================================================== AudioCapturer
\* Initialize: failAt = 0 succeeds, failAt = k fails at the k-th OS call
\* (1 CoCreateInstance, 2 GetDefaultAudioEndpoint, 3 Activate,
\*  4 GetMixFormat, 5 IAudioClient::Initialize, 6 GetService)
AudioInitSteps == 6

AudioInitialize(failAt) ==
    /\ failAt \in 0..AudioInitSteps
    /\ m_audioClient' = IF failAt \in 1..3 THEN "null"
                        ELSE IF failAt \in 4..5 THEN "uninit"
                        ELSE "ready"
    /\ m_captureClient' = (failAt = 0)
    /\ initState' = IF failAt = 0 THEN "ok" ELSE "failed"
    /\ UNCHANGED <<m_captureThread, a_pc, packetLength, outputEmpty, loopExit>>
    /\ UNCHANGED <<m_running, m_callback, lastCall, destroyed, fault>>
    /\ UNCHANGED <<displayVars, videoVars, windowVars>>

\* joinable() that never reports a thread to join
JoinableNever(thread) == FALSE

\* m_captureThread.joinable()
Joinable(thread) == thread # "none"

\* m_captureThread = std::thread(...): assigning to a joinable thread calls
\* std::terminate
SpawnCaptureThread ==
    IF Joinable(m_captureThread)
    THEN /\ fault' = "crashed"
         /\ UNCHANGED <<m_captureThread, a_pc>>
    ELSE /\ m_captureThread' = "alive"
         /\ a_pc' = "check"
         /\ fault' = fault

\* Start without its guard
AudioStartNeverRejected == FALSE

\* `if (m_running) return;` of AudioCapturer::Start
AudioStartRejected == m_running

\* Start(callback); hr is what m_audioClient->Start() yields: on a null
\* client the call is undefined (an access violation, or the call comes
\* back with either HRESULT), on an uninitialized or already started client
\* the OS fails it
AudioStart(cb, hr) ==
    /\ lastCall' = IF AudioStartRejected THEN "rejected" ELSE "started"
    /\ IF AudioStartRejected
       THEN UNCHANGED objectVars
       ELSE /\ m_callback' = cb
            /\ hr \in (CASE m_audioClient = "null" -> {"crash", "fail", "ok"}
                         [] m_audioClient = "ready" -> {"fail", "ok"}
                         [] OTHER -> {"fail"})
            /\ CASE hr = "crash" ->
                      /\ m_running' = TRUE
                      /\ fault' = "crashed"
                      /\ UNCHANGED <<m_audioClient, m_captureThread, a_pc>>
                 [] hr = "fail" ->
                      /\ m_running' = FALSE
                      /\ fault' = fault
                      /\ UNCHANGED <<m_audioClient, m_captureThread, a_pc>>
                 [] hr = "ok" ->
                      /\ m_running' = TRUE
                      /\ m_audioClient' = IF m_audioClient = "null" THEN "null" ELSE "started"
                      /\ SpawnCaptureThread
            /\ UNCHANGED <<initState, destroyed, m_captureClient, packetLength, outputEmpty, loopExit,
                           displayVars, videoVars, windowVars>>

\* Stop without `if (!m_running) return;` and without the joinable() test:
\* join() on a thread that is not joinable throws std::system_error, which
\* nothing catches
AudioStopBeginUnguarded(blockedPc, returnPc) ==
    /\ m_running' = FALSE
    /\ m_audioClient' = IF m_audioClient = "started" THEN "ready" ELSE m_audioClient
    /\ IF m_captureThread # "none"
       THEN /\ c_pc' = blockedPc
            /\ UNCHANGED <<lastCall, fault>>
       ELSE /\ c_pc' = returnPc
            /\ fault' = "crashed"
            /\ StopReturns
    /\ UNCHANGED <<initState, m_callback, destroyed,
                   m_captureClient, m_captureThread, a_pc, packetLength, outputEmpty, loopExit,
                   displayVars, videoVars, windowVars>>

\* Stop up to the join: returns at once (c_pc = returnPc) when not running
\* or when the thread is not joinable, otherwise blocks in join
\* (c_pc = blockedPc)
AudioStopBegin(blockedPc, returnPc) ==
    /\ IF ~m_running
       THEN /\ StopReturns
            /\ c_pc' = returnPc
            /\ UNCHANGED objectVars
       ELSE /\ m_running' = FALSE
            /\ m_audioClient' = IF m_audioClient = "started" THEN "ready" ELSE m_audioClient
            /\ IF Joinable(m_captureThread)
               THEN /\ c_pc' = blockedPc
                    /\ UNCHANGED lastCall
               ELSE /\ c_pc' = returnPc
                    /\ StopReturns
            /\ UNCHANGED <<initState, m_callback, destroyed, fault,
                           m_captureClient, m_captureThread, a_pc, packetLength, outputEmpty, loopExit,
                           displayVars, videoVars, windowVars>>

\* m_captureThread.join() returns once CaptureLoop has returned
AudioStopJoin(returnPc) ==
    /\ m_captureThread = "finished"
    /\ m_captureThread' = "none"
    /\ StopReturns
    /\ c_pc' = returnPc
    /\ UNCHANGED <<initState, m_running, m_callback, destroyed, fault,
                   m_audioClient, m_captureClient, a_pc, packetLength, outputEmpty, loopExit,
                   displayVars, videoVars, windowVars>>

\* ---- CaptureLoop, one action per step of the thread
AudioThreadExit(why) ==
    /\ a_pc' = "none"
    /\ m_captureThread' = "finished"
    /\ loopExit' = why

\* while (m_running)
AudioLoopCheck ==
    /\ a_pc = "check"
    /\ IF m_running
       THEN /\ a_pc' = "getsize"
            /\ UNCHANGED <<m_captureThread, loopExit>>
       ELSE AudioThreadExit("stopped")
    /\ UNCHANGED <<clientVars, sessVars, m_audioClient, m_captureClient, packetLength,
                   outputEmpty, displayVars, videoVars, windowVars>>

\* hr = m_captureClient->GetNextPacketSize(&packetLength); a failure breaks
\* out of the outer loop.  Through a null capture client the call is
\* undefined.
AudioGetPacketSize ==
    /\ a_pc = "getsize"
    /\ \E r \in (IF m_captureClient THEN {"fail", "empty", "packet"}
                                    ELSE {"crash", "fail", "empty", "packet"}) :
          /\ fault' = IF r = "crash" THEN "crashed" ELSE fault
          /\ CASE r = "crash" -> UNCHANGED <<a_pc, m_captureThread, loopExit, packetLength>>
               [] r = "fail" -> AudioThreadExit("fatal") /\ UNCHANGED packetLength
               [] OTHER -> /\ packetLength' = (r = "packet")
                           /\ a_pc' = "inner"
                           /\ UNCHANGED <<m_captureThread, loopExit>>
    /\ UNCHANGED <<clientVars, initState, m_running, m_callback,
                   lastCall, destroyed, m_audioClient, m_captureClient, outputEmpty,
                   displayVars, videoVars, windowVars>>

\* an inner loop that drains packets without looking at the flag
AudioInnerCheckDraining ==
    /\ a_pc = "inner"
    /\ a_pc' = IF packetLength THEN "getbuffer" ELSE "sleep"
    /\ UNCHANGED <<clientVars, sessVars, m_audioClient, m_captureClient, m_captureThread,
                   packetLength, outputEmpty, loopExit, displayVars, videoVars, windowVars>>

\* while (packetLength > 0 && m_running)
AudioInnerCheck ==
    /\ a_pc = "inner"
    /\ a_pc' = IF packetLength /\ m_running THEN "getbuffer" ELSE "sleep"
    /\ UNCHANGED <<clientVars, sessVars, m_audioClient, m_captureClient, m_captureThread,
                   packetLength, outputEmpty, loopExit, displayVars, videoVars, windowVars>>

\* GetBuffer (a failure breaks the inner loop), timestamp, then silence or
\* NormalizeAudio into m_outputBuffer
AudioGetBuffer ==
    /\ a_pc = "getbuffer"
    /\ \E ok \in BOOLEAN :
          IF ok
          THEN a_pc' = "release" /\ outputEmpty' \in BOOLEAN
          ELSE a_pc' = "sleep" /\ UNCHANGED outputEmpty
    /\ UNCHANGED <<clientVars, sessVars, m_audioClient, m_captureClient, m_captureThread,
                   packetLength, loopExit, displayVars, videoVars, windowVars>>

\* m_captureClient->ReleaseBuffer(numFrames)
AudioReleaseBuffer ==
    /\ a_pc = "release"
    /\ a_pc' = "emit"
    /\ UNCHANGED <<clientVars, sessVars, m_audioClient, m_captureClient, m_captureThread,
                   packetLength, outputEmpty, loopExit, displayVars, videoVars, windowVars>>

\* if (m_callback && !m_outputBuffer.empty()) m_callback(packet...)
AudioEmit ==
    /\ a_pc = "emit"
    /\ a_pc' = "nextsize"
    /\ IF m_callback # 0 /\ ~outputEmpty
       THEN InvokeCallback
       ELSE UNCHANGED g_running
    /\ UNCHANGED <<kind, client, c_pc, main_pc, initState, m_running, m_callback,
                   lastCall, destroyed, fault, m_audioClient, m_captureClient,
                   m_captureThread, packetLength, outputEmpty, loopExit, displayVars, videoVars, windowVars>>

\* hr = GetNextPacketSize(&packetLength); if (FAILED(hr)) break; (inner loop)
AudioNextPacketSize ==
    /\ a_pc = "nextsize"
    /\ \E r \in {"fail", "empty", "packet"} :
          IF r = "fail"
          THEN a_pc' = "sleep" /\ UNCHANGED packetLength
          ELSE a_pc' = "inner" /\ packetLength' = (r = "packet")
    /\ UNCHANGED <<clientVars, sessVars, m_audioClient, m_captureClient, m_captureThread,
                   outputEmpty, loopExit, displayVars, videoVars, windowVars>>

\* Sleep(5)
AudioSleep ==
    /\ a_pc = "sleep"
    /\ a_pc' = "check"
    /\ UNCHANGED <<clientVars, sessVars, m_audioClient, m_captureClient, m_captureThread,
                   packetLength, outputEmpty, loopExit, displayVars, videoVars, windowVars>>

AudioThread ==
    /\ Alive
    /\ UNCHANGED dataVars
    /\ \/ AudioLoopCheck \/ AudioGetPacketSize \/ AudioInnerCheck \/ AudioGetBuffer
       \/ AudioReleaseBuffer \/ AudioEmit \/ AudioNextPacketSize \/ AudioSleep


\* ===================================================== GpuColorConverter
\* what Convert can yield: on an initialized converter the frame or nullptr;
\* a converter whose Initialize failed holds null video interfaces, a
\* session that never created one holds a null unique_ptr: the call crashes
\* or comes back with nullptr
ConvertOutcomes ==
    IF m_colorConverter = "ready" THEN {"ok", "fail"} ELSE {"crash", "fail"}

ConvertFault(r) == IF r = "crash" THEN "crashed" ELSE fault

\* ===================================================== DisplayCapturer
\* Initialize: failAt = 0 succeeds, failAt = k fails at the k-th step
\* (1 D3D11CreateDevice, 2 IDXGIDevice, 3 GetAdapter, 4 display not found,
\*  5 IDXGIOutput1, 6 scaled texture, 7 ReinitializeDuplication,
\*  8 GpuColorConverter::Initialize); the scaled texture is created only
\* when the requested size differs from the native one
DisplayInitSteps == 8

\* a Reset that drops the pointer without releasing what it held
ComResetLeaking(count, held) == count

\* ComPtr::Reset(): the handle held, if any, is released
ComReset(count, held) == IF held THEN count - 1 ELSE count

\* ReinitializeDuplication(): m_duplication.Reset(), then DuplicateOutput
\* creates a handle when it succeeds
ReinitializedHandles(count, held, ok) == ComReset(count, held) + (IF ok THEN 1 ELSE 0)

DisplayInitialize(failAt, scaling) ==
    /\ failAt \in 0..DisplayInitSteps
    /\ failAt = 6 => scaling
    /\ m_output' = (failAt \notin 1..5)
    /\ m_needsScaling' = (scaling /\ failAt \notin 1..5)
    /\ m_duplication' = (failAt \notin 1..7)
    /\ dupHandles' = IF failAt \in 1..6 THEN dupHandles
                     ELSE ReinitializedHandles(dupHandles, m_duplication, failAt # 7)
    /\ m_colorConverter' = IF failAt = 0 THEN "ready"
                           ELSE IF failAt = 8 THEN "uninit"
                           ELSE "null"
    /\ initState' = IF failAt = 0 THEN "ok" ELSE "failed"
    /\ UNCHANGED <<d_pc, d_hr, d_reinits>>
    /\ UNCHANGED <<m_running, m_callback, lastCall, destroyed, fault>>
    /\ UNCHANGED <<audioVars, windowVars>>

\* the slot the next detached thread takes
FreeSlots == {t \in Threads : d_pc[t] = "none"}
NextSlot == CHOOSE t \in FreeSlots : \A u \in FreeSlots : t <= u

\* `if (m_running) return;` of DisplayCapturer::Start
DisplayStartRejected == m_running

\* Start(callback): std::thread(CaptureLoop).detach()
DisplayStart(cb) ==
    /\ lastCall' = IF DisplayStartRejected THEN "rejected" ELSE "started"
    /\ IF DisplayStartRejected
       THEN UNCHANGED objectVars
       ELSE /\ FreeSlots # {}
            /\ m_callback' = cb
            /\ m_running' = TRUE
            /\ d_pc' = [d_pc EXCEPT ![NextSlot] = "check"]
            /\ UNCHANGED <<initState, destroyed, fault, m_output, m_duplication, dupHandles,
                           d_hr, d_reinits, audioVars, videoVars, windowVars>>

\* Stop(): m_running = false; and nothing else
DisplayStop(returnPc) ==
    /\ m_running' = FALSE
    /\ StopReturns
    /\ c_pc' = returnPc
    /\ UNCHANGED <<initState, m_callback, destroyed, fault,
                   audioVars, displayVars, videoVars, windowVars>>

\* ---- CaptureLoop of thread t
\* while (m_running): a new tick starts, or the thread ends
DisplayLoopCheck(t) ==
    /\ d_pc[t] = "check"
    /\ d_pc' = [d_pc EXCEPT ![t] = IF m_running THEN "acquire" ELSE "none"]
    /\ UNCHANGED <<clientVars, sessVars, m_output, m_duplication, dupHandles, d_hr, d_reinits,
                   audioVars, videoVars, windowVars>>

\* an access-loss branch that forgets m_duplication.Reset()
AccessLostHandleKept(dup) == dup

\* the access-loss branch of AcquireNextFrame: m_duplication.Reset() leaves
\* no handle
AccessLostHandle(dup) == FALSE

\* a failed recreation that is ignored
ReinitResultPcIgnored(ok) == "osacquire"

\* if (!ReinitializeDuplication()) return false;
ReinitResultPc(ok) == IF ok THEN "osacquire" ELSE "pace"

\* AcquireNextFrame, first part: if (!m_duplication) ReinitializeDuplication();
\* DuplicateOutput through a null m_output is undefined
DisplayAcquireBegin(t) ==
    /\ d_pc[t] = "acquire"
    /\ IF m_duplication
       THEN /\ d_pc' = [d_pc EXCEPT ![t] = "osacquire"]
            /\ UNCHANGED <<m_duplication, dupHandles, d_reinits, fault>>
       ELSE \E r \in (IF m_output THEN {"ok", "fail"} ELSE {"crash", "fail"}) :
               /\ d_reinits' = [d_reinits EXCEPT ![t] = @ + 1]
               /\ m_duplication' = (r = "ok")
               /\ dupHandles' = ReinitializedHandles(dupHandles, m_duplication, r = "ok")
               /\ fault' = IF r = "crash" THEN "crashed" ELSE fault
               /\ d_pc' = [d_pc EXCEPT ![t] = IF r = "crash" THEN @ ELSE ReinitResultPc(r = "ok")]
    /\ UNCHANGED <<clientVars, initState, m_running, m_callback,
                   lastCall, destroyed, m_output, d_hr, audioVars, videoVars, windowVars>>

\* a timeout taken for a frame
AcquireResultPcTimeoutAsFrame(hr) == IF hr \in {"ok", "timeout"} THEN "copy" ELSE "pace"

\* where AcquireNextFrame goes after the OS call: on with the frame, or
\* `return false` (timeout, access-loss, any other failure)
AcquireResultPc(hr) == IF hr = "ok" THEN "copy" ELSE "pace"

\* m_duplication->AcquireNextFrame(100, ...): timeout and failure return
\* false, access-loss resets the handle and returns false.  The handle can
\* be null here only when another thread of the session reset it: the call
\* is then undefined.
DisplayOsAcquire(t) ==
    /\ d_pc[t] = "osacquire"
    /\ \E hr \in (IF m_duplication THEN {"ok", "timeout", "lost", "fail"} ELSE {"crash", "fail"}) :
          /\ d_hr' = [d_hr EXCEPT ![t] = IF hr \in {"timeout", "lost", "fail"} THEN hr ELSE @]
          /\ fault' = IF hr = "crash" THEN "crashed" ELSE fault
          /\ m_duplication' = IF hr = "lost" THEN AccessLostHandle(m_duplication) ELSE m_duplication
          /\ dupHandles' = IF hr = "lost" THEN ComReset(dupHandles, m_duplication) ELSE dupHandles
          /\ UNCHANGED d_reinits
          /\ d_pc' = [d_pc EXCEPT ![t] = IF hr = "crash" THEN @ ELSE AcquireResultPc(hr)]
    /\ UNCHANGED <<clientVars, initState, m_running, m_callback,
                   lastCall, destroyed, m_output, audioVars, videoVars, windowVars>>

\* the desktop texture is copied (sub-region or whole) and the frame is
\* released; QueryInterface or CreateTexture2D failing returns false
DisplayCopyFrame(t) ==
    /\ d_pc[t] = "copy"
    /\ \E r \in ({"ok", "qifail"} \cup (IF m_needsScaling THEN {} ELSE {"texfail"})
                 \cup (IF m_duplication THEN {} ELSE {"crash"})) :
          /\ fault' = IF r = "crash" THEN "crashed" ELSE fault
          /\ d_pc' = [d_pc EXCEPT ![t] = CASE r = "ok" -> "convert"
                                           [] r = "crash" -> @
                                           [] OTHER -> "pace"]
    /\ UNCHANGED <<clientVars, initState, m_running, m_callback,
                   lastCall, destroyed, m_output, m_duplication, dupHandles, d_hr, d_reinits,
                   audioVars, videoVars, windowVars>>

\* a loop that gives up when Convert returns nullptr
DisplayConvertFailStops(t) ==
    /\ d_pc[t] = "convert"
    /\ \E r \in ConvertOutcomes :
          /\ fault' = ConvertFault(r)
          /\ m_running' = IF r = "fail" THEN FALSE ELSE m_running
          /\ d_hr' = [d_hr EXCEPT ![t] = IF r = "fail" THEN "convert" ELSE @]
          /\ d_pc' = [d_pc EXCEPT ![t] = CASE r = "ok" -> "emit"
                                           [] r = "fail" -> "pace"
                                           [] OTHER -> @]
    /\ UNCHANGED <<clientVars, initState, m_callback,
                   lastCall, destroyed, m_output, m_duplication, dupHandles, d_reinits,
                   audioVars, videoVars, windowVars>>

\* nv12Data = m_colorConverter->Convert(...)
DisplayConvert(t) ==
    /\ d_pc[t] = "convert"
    /\ \E r \in ConvertOutcomes :
          /\ fault' = ConvertFault(r)
          /\ d_hr' = [d_hr EXCEPT ![t] = IF r = "fail" THEN "convert" ELSE @]
          /\ d_pc' = [d_pc EXCEPT ![t] = CASE r = "ok" -> "emit"
                                           [] r = "fail" -> "pace"
                                           [] OTHER -> @]
    /\ UNCHANGED <<clientVars, initState, m_running, m_callback,
                   lastCall, destroyed, m_output, m_duplication, dupHandles, d_reinits,
                   audioVars, videoVars, windowVars>>

\* if (nv12Data && m_callback) m_callback(nv12Data, size, timestamp)
DisplayEmit(t) ==
    /\ d_pc[t] = "emit"
    /\ d_pc' = [d_pc EXCEPT ![t] = "pace"]
    /\ IF m_callback # 0 THEN InvokeCallback ELSE UNCHANGED g_running
    /\ UNCHANGED <<kind, client, c_pc, main_pc, initState, m_running, m_callback,
                   lastCall, destroyed, fault, m_output, m_duplication, dupHandles, d_hr, d_reinits,
                   audioVars, videoVars, windowVars>>

\* frame rate limiting: sleep to the next tick or reset the schedule; the
\* tick is over
DisplayPace(t) ==
    /\ d_pc[t] = "pace"
    /\ d_pc' = [d_pc EXCEPT ![t] = "check"]
    /\ d_hr' = [d_hr EXCEPT ![t] = "none"]
    /\ d_reinits' = [d_reinits EXCEPT ![t] = 0]
    /\ UNCHANGED <<clientVars, sessVars, m_output, m_duplication, dupHandles, audioVars, videoVars, windowVars>>

DisplayThread ==
    /\ Alive
    /\ UNCHANGED dataVars
    /\ \E t \in Threads :
          \/ DisplayLoopCheck(t) \/ DisplayAcquireBegin(t) \/ DisplayOsAcquire(t)
          \/ DisplayCopyFrame(t) \/ DisplayConvert(t) \/ DisplayEmit(t) \/ DisplayPace(t)


\* ===================================================== WindowCapturer
\* Initialize: failAt = 0 succeeds, failAt = k fails at the k-th step
\* (1 IsSupported, 2 D3D11CreateDevice, 3 CreateForWindow throws,
\*  4 no capture item, 5 scaled texture, 6 GpuColorConverter::Initialize);
\* the frame pool, its FrameArrived subscription and the session are
\* created before the converter
WindowInitSteps == 6

WindowInitialize(failAt, scaling) ==
    /\ failAt \in 0..WindowInitSteps
    /\ failAt = 5 => scaling
    /\ m_captureItem' = (failAt \notin 1..4)
    /\ m_needsScaling' = (scaling /\ failAt \notin 1..4)
    /\ m_framePool' = (failAt \in {0, 6})
    /\ subscribed' = (failAt \in {0, 6})
    /\ m_session' = (failAt \in {0, 6})
    /\ m_colorConverter' = IF failAt = 0 THEN "ready"
                           ELSE IF failAt = 6 THEN "uninit"
                           ELSE "null"
    /\ initState' = IF failAt = 0 THEN "ok" ELSE "failed"
    /\ UNCHANGED <<capturing, w_pc>>
    /\ UNCHANGED <<m_running, m_callback, lastCall, destroyed, fault>>
    /\ UNCHANGED <<audioVars, displayVars>>

\* `if (m_running) return;` of WindowCapturer::Start
WindowStartRejected == m_running

\* Start(callback): m_session.StartCapture(); through a null session the
\* call is undefined (an access violation, or it comes back and nothing is
\* captured)
WindowStart(cb, r) ==
    /\ lastCall' = IF WindowStartRejected THEN "rejected" ELSE "started"
    /\ IF WindowStartRejected
       THEN UNCHANGED objectVars
       ELSE /\ r \in (IF m_session THEN {"ok"} ELSE {"crash", "fail"})
            /\ m_callback' = cb
            /\ m_running' = TRUE
            /\ capturing' = (r = "ok")
            /\ fault' = IF r = "crash" THEN "crashed" ELSE fault
            /\ UNCHANGED <<initState, destroyed, m_session, m_framePool, m_captureItem,
                           subscribed, w_pc, audioVars, displayVars, videoVars>>

\* Stop, first statements: if (!m_running) return; m_running = false;
WindowStopBegin(blockedPc, returnPc) ==
    /\ IF ~m_running
       THEN /\ StopReturns
            /\ c_pc' = returnPc
            /\ UNCHANGED objectVars
       ELSE /\ m_running' = FALSE
            /\ c_pc' = blockedPc
            /\ UNCHANGED <<initState, m_callback, lastCall, destroyed, fault,
                           audioVars, displayVars, videoVars, windowVars>>

\* Stop, the rest: close and clear the session, unsubscribe, close and
\* clear the frame pool, clear the capture item; nothing is waited for
WindowStopClose(returnPc) ==
    /\ m_session' = FALSE
    /\ capturing' = IF m_session THEN FALSE ELSE capturing
    /\ subscribed' = IF m_framePool THEN FALSE ELSE subscribed
    /\ m_framePool' = FALSE
    /\ m_captureItem' = FALSE
    /\ StopReturns
    /\ c_pc' = returnPc
    /\ UNCHANGED <<initState, m_running, m_callback, destroyed, fault,
                   w_pc, audioVars, displayVars, videoVars>>

WindowDeliverUnchecked ==
    /\ w_pc = "none"
    /\ subscribed
    /\ w_pc' = "frame"
    /\ UNCHANGED <<clientVars, sessVars, m_session, m_framePool, m_captureItem, subscribed,
                   capturing, audioVars, displayVars, videoVars>>

\* ---- OnFrameArrived, run by the OS for the frame pool whose FrameArrived
\* event Initialize subscribed to (before or after StartCapture)
\* if (!m_running) return;
WindowDeliver ==
    /\ w_pc = "none"
    /\ subscribed
    /\ w_pc' = IF m_running THEN "frame" ELSE "none"
    /\ UNCHANGED <<clientVars, sessVars, m_session, m_framePool, m_captureItem, subscribed,
                   capturing, audioVars, displayVars, videoVars>>

\* TryGetNextFrame, GetD3D11Texture, timestamp, crop or copy
WindowTakeFrame ==
    /\ w_pc = "frame"
    /\ \E r \in {"ok", "noframe", "notexture"} : w_pc' = IF r = "ok" THEN "convert" ELSE "none"
    /\ UNCHANGED <<clientVars, sessVars, m_session, m_framePool, m_captureItem, subscribed,
                   capturing, audioVars, displayVars, videoVars>>

\* nv12Data = m_colorConverter->Convert(...)
WindowConvert ==
    /\ w_pc = "convert"
    /\ \E r \in ConvertOutcomes :
          /\ fault' = ConvertFault(r)
          /\ w_pc' = CASE r = "ok" -> "emit" [] r = "fail" -> "none" [] OTHER -> w_pc
    /\ UNCHANGED <<clientVars, initState, m_running, m_callback,
                   lastCall, destroyed, m_session, m_framePool, m_captureItem,
                   subscribed, capturing, audioVars, displayVars, videoVars>>

\* if (nv12Data && m_callback) m_callback(nv12Data, size, timestamp)
WindowEmit ==
    /\ w_pc = "emit"
    /\ w_pc' = "none"
    /\ IF m_callback # 0 THEN InvokeCallback ELSE UNCHANGED g_running
    /\ UNCHANGED <<kind, client, c_pc, main_pc, initState, m_running, m_callback,
                   lastCall, destroyed, fault, m_session, m_framePool, m_captureItem,
                   subscribed, capturing, audioVars, displayVars, videoVars>>

WindowDelivery ==
    /\ Alive
    /\ UNCHANGED dataVars
    /\ \/ WindowDeliver \/ WindowTakeFrame \/ WindowConvert \/ WindowEmit

\* a display thread or a frame delivery that still runs after the destructor
\* has returned works on a destroyed object: besides going on as if the
\* memory were intact (the actions above), the process can crash
UseAfterFree ==
    /\ Alive
    /\ UNCHANGED dataVars
    /\ destroyed
    /\ (\E t \in Threads : d_pc[t] # "none") \/ w_pc # "none"
    /\ fault' = "crashed"
    /\ UNCHANGED <<clientVars, initState, m_running, m_callback,
                   lastCall, destroyed, audioVars, displayVars, videoVars, windowVars>>


\* ===================================================== the public methods
InitSteps == 0..8

Initialize ==
    \E failAt \in InitSteps, scaling \in BOOLEAN :
       \/ kind = "audio" /\ ~scaling /\ AudioInitialize(failAt)
       \/ kind = "display" /\ DisplayInitialize(failAt, scaling)
       \/ kind = "window" /\ WindowInitialize(failAt, scaling)

Start(cb) ==
    \/ kind = "audio" /\ \E hr \in {"crash", "fail", "ok"} : AudioStart(cb, hr)
    \/ kind = "display" /\ DisplayStart(cb)
    \/ kind = "window" /\ \E r \in {"crash", "fail", "ok"} : WindowStart(cb, r)

\* Stop up to the point where it returns (c_pc = returnPc) or has to go on
\* in a later step (c_pc = blockedPc)
Stop(blockedPc, returnPc) ==
    \/ kind = "audio" /\ AudioStopBegin(blockedPc, returnPc)
    \/ kind = "display" /\ DisplayStop(returnPc)
    \/ kind = "window" /\ WindowStopBegin(blockedPc, returnPc)

\* the rest of a Stop that did not return at once: a plain Stop call goes
\* back to "idle", the Stop of the destructor to "dtorEnd"
StopResume ==
    /\ Alive
    /\ UNCHANGED dataVars
    /\ c_pc \in {"Stop", "dtor"}
    /\ LET returnPc == IF c_pc = "Stop" THEN "idle" ELSE "dtorEnd"
       IN  \/ kind = "audio" /\ AudioStopJoin(returnPc)
           \/ kind = "window" /\ WindowStopClose(returnPc)
    /\ UNCHANGED <<kind, client, main_pc, g_running>>

\* the destructor after its Stop(): the members are destroyed; destroying
\* a joinable std::thread calls std::terminate
DtorFinish ==
    /\ Alive
    /\ UNCHANGED dataVars
    /\ c_pc = "dtorEnd"
    /\ c_pc' = "gone"
    /\ destroyed' = TRUE
    /\ fault' = IF kind = "audio" /\ Joinable(m_captureThread) THEN "crashed" ELSE fault
    /\ UNCHANGED <<kind, client, main_pc, g_running, initState, m_running, m_callback,
                   lastCall, audioVars, displayVars, videoVars, windowVars>>

\* ---- a client that calls the methods in any order, one call at a time;
\* Initialize is called at most once per object, and not on an object on
\* which a Start has already passed its guard (m_callback is set)
ApiInitialize ==
    /\ Alive /\ client = "api" /\ c_pc = "idle"
    /\ UNCHANGED dataVars
    /\ initState = "none" /\ m_callback = 0
    /\ Initialize
    /\ UNCHANGED clientVars

ApiStart ==
    /\ Alive /\ client = "api" /\ c_pc = "idle"
    /\ UNCHANGED dataVars
    /\ \E cb \in Callbacks : Start(cb)
    /\ UNCHANGED clientVars

ApiStop ==
    /\ Alive /\ client = "api" /\ c_pc = "idle"
    /\ UNCHANGED dataVars
    /\ Stop("Stop", "idle")
    /\ UNCHANGED <<kind, client, main_pc, g_running>>

ApiDestroy ==
    /\ Alive /\ client = "api" /\ c_pc = "idle"
    /\ UNCHANGED dataVars
    /\ Stop("dtor", "dtorEnd")
    /\ UNCHANGED <<kind, client, main_pc, g_running>>

\* ===================================================== main.cpp
\* Capture(): Initialize; on success Start, wait, Stop; the capturer is
\* destroyed (audioCapturer.reset() or end of scope) and main returns
InitMain ==
    /\ InitCommon
    /\ client = "main"
    /\ main_pc = "init"

\* the callback Capture() registers (videoCallback or audioCallback)
MainCallback == 1

\* a driver that ignores what Initialize returned
MainAfterInitializeAlwaysStart(ok) == "start"

\* if (!capturer->Initialize(...)) the capturer is dropped, else Start
MainAfterInitialize(ok) == IF ok THEN "start" ELSE "dtor"

MainInitialize ==
    /\ Alive /\ main_pc = "init"
    /\ UNCHANGED dataVars
    /\ Initialize
    /\ main_pc' = MainAfterInitialize(initState' = "ok")
    /\ UNCHANGED <<kind, client, c_pc, g_running>>

MainStart ==
    /\ Alive /\ main_pc = "start"
    /\ UNCHANGED dataVars
    /\ Start(MainCallback)
    /\ main_pc' = "wait"
    /\ UNCHANGED <<kind, client, c_pc, g_running>>

\* while (g_running && capturer->IsRunning()) Sleep(100); the audio
\* capturer is stopped when the video part of Capture() is over
MainWait ==
    /\ Alive /\ main_pc = "wait"
    /\ UNCHANGED dataVars
    /\ kind = "audio" \/ ~g_running \/ ~m_running
    /\ main_pc' = "stop"
    /\ UNCHANGED <<kind, client, c_pc, g_running, sessVars, audioVars, displayVars,
                   videoVars, windowVars>>

MainStop ==
    /\ Alive /\ main_pc = "stop" /\ c_pc = "idle"
    /\ UNCHANGED dataVars
    /\ Stop("Stop", "idle")
    /\ main_pc' = "dtor"
    /\ UNCHANGED <<kind, client, g_running>>

MainDtor ==
    /\ Alive /\ main_pc = "dtor" /\ c_pc = "idle"
    /\ UNCHANGED dataVars
    /\ Stop("dtor", "dtorEnd")
    /\ main_pc' = "return"
    /\ UNCHANGED <<kind, client, g_running>>

\* return from main: the process ends and with it every thread
MainExit ==
    /\ Alive /\ main_pc = "return" /\ c_pc = "gone"
    /\ UNCHANGED dataVars
    /\ main_pc' = "exit"
    /\ UNCHANGED <<kind, client, c_pc, g_running, sessVars, audioVars, displayVars,
                   videoVars, windowVars>>

\* ConsoleHandler: g_running = false
ConsoleHandler ==
    /\ Alive /\ client = "main"
    /\ UNCHANGED dataVars
    /\ g_running
    /\ g_running' = FALSE
    /\ UNCHANGED <<kind, client, c_pc, main_pc, sessVars, audioVars, displayVars,
                   videoVars, windowVars>>

\* ===================================================== double arithmetic
\* The two frame-count expressions of AudioCapturer.cpp are evaluated in
\* IEEE-754 double precision: a 53-bit significand, round to nearest, ties to
\* even. A double is held here as [m, e]: a sequence of at most 53 bits with
\* a leading 1 (empty for zero) and the exponent of its last bit, so that its
\* value is m * 2^e. Intermediate integers are kept in limbs of 12 bits so
\* that no product leaves the 32-bit integers of the checker.
Mantissa == 53
LimbBits == 12
LimbBase == 4096
\* limbs of quotient fraction computed before rounding (72 bits)
FractionLimbs == 6
Pow2Limb == <<2048, 1024, 512, 256, 128, 64, 32, 16, 8, 4, 2, 1>>

BitsOfLimbs(limbs) ==
    [i \in 1..(LimbBits * Len(limbs)) |->
        (limbs[((i - 1) \div LimbBits) + 1] \div Pow2Limb[((i - 1) % LimbBits) + 1]) % 2]

Zeros(k) == [i \in 1..k |-> 0]

StripZeros(bits) ==
    IF \A i \in 1..Len(bits) : bits[i] = 0 THEN <<>>
    ELSE LET first == CHOOSE i \in 1..Len(bits) : bits[i] = 1 /\ \A j \in 1..(i - 1) : bits[j] = 0
         IN  SubSeq(bits, first, Len(bits))

LimbValue(s) ==
    s[1]*2048 + s[2]*1024 + s[3]*512 + s[4]*256 + s[5]*128 + s[6]*64
        + s[7]*32 + s[8]*16 + s[9]*8 + s[10]*4 + s[11]*2 + s[12]

LimbsOfBits(bits) ==
    LET k == (Len(bits) + LimbBits - 1) \div LimbBits
        padded == Zeros(k * LimbBits - Len(bits)) \o bits
    IN  [j \in 1..k |-> LimbValue(SubSeq(padded, LimbBits * (j - 1) + 1, LimbBits * j))]

\* the integer a bit sequence of at most 31 bits stands for
BitsInt(bits) ==
    LET l == LimbsOfBits(bits)
    IN  CASE Len(l) = 0 -> 0
          [] Len(l) = 1 -> l[1]
          [] Len(l) = 2 -> l[1] * LimbBase + l[2]
          [] OTHER -> (l[Len(l) - 2] * LimbBase + l[Len(l) - 1]) * LimbBase + l[Len(l)]

IncBits(bits) ==
    IF \A i \in 1..Len(bits) : bits[i] = 1 THEN <<1>> \o Zeros(Len(bits))
    ELSE LET p == CHOOSE i \in 1..Len(bits) : bits[i] = 0 /\ \A j \in (i + 1)..Len(bits) : bits[j] = 1
         IN  [i \in 1..Len(bits) |-> IF i < p THEN bits[i] ELSE IF i = p THEN 1 ELSE 0]

\* round the exact value bits * 2^e (plus a nonzero tail below the last bit
\* when sticky) to a double
RoundDouble(bits, e, sticky) ==
    IF Len(bits) <= Mantissa THEN [m |-> bits, e |-> e]
    ELSE LET keep == SubSeq(bits, 1, Mantissa)
             k == Len(bits) - Mantissa
             guard == bits[Mantissa + 1]
             rest == sticky \/ \E i \in (Mantissa + 2)..Len(bits) : bits[i] = 1
             up == guard = 1 /\ (rest \/ keep[Mantissa] = 1)
             r == IF up THEN IncBits(keep) ELSE keep
         IN  IF Len(r) > Mantissa THEN [m |-> SubSeq(r, 1, Mantissa), e |-> e + k + 1]
             ELSE [m |-> r, e |-> e + k]

RECURSIVE FractionRem(_, _, _)
FractionRem(rem, b, k) ==
    IF k = 0 THEN rem ELSE (FractionRem(rem, b, k - 1) * LimbBase) % b

\* the double a / b of two integers, 0 <= a < 2^31 and 0 < b < 2^19
DoubleDiv(a, b) ==
    LET fraction == [k \in 1..FractionLimbs |-> (FractionRem(a % b, b, k - 1) * LimbBase) \div b]
        bits == StripZeros(BitsOfLimbs(<<(a \div b) \div (LimbBase * LimbBase),
                                         ((a \div b) \div LimbBase) % LimbBase,
                                         (a \div b) % LimbBase>> \o fraction))
    IN  RoundDouble(bits, -(LimbBits * FractionLimbs), FractionRem(a % b, b, FractionLimbs) # 0)

RECURSIVE MulLimbs(_, _, _)
MulLimbs(limbs, n, carry) ==
    IF limbs = <<>> THEN <<carry \div LimbBase, carry % LimbBase>>
    ELSE LET v == limbs[Len(limbs)] * n + carry
         IN  Append(MulLimbs(SubSeq(limbs, 1, Len(limbs) - 1), n, v \div LimbBase), v % LimbBase)

\* the double n * d of an integer 0 <= n < 2^19 and a double
DoubleMulInt(n, d) ==
    IF n = 0 \/ d.m = <<>> THEN [m |-> <<>>, e |-> 0]
    ELSE RoundDouble(StripZeros(BitsOfLimbs(MulLimbs(LimbsOfBits(d.m), n, 0))), d.e, FALSE)

\* static_cast<size_t> of a non-negative double below 2^31
TruncDouble(d) ==
    IF d.m = <<>> \/ Len(d.m) + d.e <= 0 THEN 0
    ELSE IF d.e >= 0 THEN BitsInt(d.m \o Zeros(d.e))
    ELSE BitsInt(SubSeq(d.m, 1, Len(d.m) + d.e))

\* ===================================================== AudioCapturer, data
\* ------------------------------------------------------------------ bounds
\* the short buffers GetBuffer may return have 0..MaxFrames frames
MaxFrames == 3
\* input waveforms per buffer size
NumPatterns == 2
\* timestamps run over 0..MaxTimestamp milliseconds
MaxTimestamp == 1

TargetRate == 48000
\* mix formats: the common shared-mode rates and one a driver is free to report
Rates == {48000, 44100, 96000, 22000}
Channels == {1, 2}
\* <<wBitsPerSample, float>> of the formats NormalizeAudio reads
Formats == {<<32, TRUE>>, <<16, FALSE>>, <<32, FALSE>>, <<24, FALSE>>}
\* frames per buffer: short ones, and one and two engine periods of 10 ms
FrameCounts(rate) == (0..MaxFrames) \cup {rate \div 100, rate \div 50}
Timestamps == 0..MaxTimestamp

\* Samples are held in units of 1/32768 of full scale: the float 1.0f is
\* 32768. Every integer input drawn below converts to float exactly.
FullScale == 32768
Int16Max == 32767
\* sample levels of the input waveforms, the last two beyond full scale
Levels == <<0, 1, -1, 16384, -32768, 32767, 40000, -40000>>

Clamp(v, lo, hi) == IF v < lo THEN lo ELSE IF v > hi THEN hi ELSE v

\* the native encoding of a level in a mix format
NativeSample(bits, isFloat, level) ==
    IF isFloat /\ bits = 32 THEN level
    ELSE LET v == Clamp(level, -FullScale, Int16Max)
         IN  CASE bits = 16 -> v
               [] bits = 32 -> v * 65536
               [] bits = 24 -> v * 256

\* the buffer the OS returns: frame i (from 0), channel c (from 0)
Waveform(seed, n, channels, bits, isFloat) ==
    [i \in 1..n |->
        [c \in 1..channels |->
            NativeSample(bits, isFloat, Levels[((seed + 3 * (i - 1) + 5 * (c - 1)) % Len(Levels)) + 1])]]

\* one native sample as a float
ReadSample(bits, isFloat, s) ==
    CASE isFloat /\ bits = 32 -> s
      [] bits = 16 -> s
      [] bits = 32 /\ ~isFloat -> s \div 65536
      [] bits = 24 -> (s * 256) \div 65536
      [] OTHER -> 0

\* one frame of m_resampleBuffer: left, and right or the left again for mono
StereoFrame(frame, channels, bits, isFloat) ==
    <<ReadSample(bits, isFloat, frame[1]),
      IF channels >= 2 THEN ReadSample(bits, isFloat, frame[2]) ELSE ReadSample(bits, isFloat, frame[1])>>

\* m_resampleBuffer after the conversion loop: interleaved stereo floats
ResampleBuffer(frames, channels, bits, isFloat) ==
    [k \in 1..(2 * Len(frames)) |->
        StereoFrame(frames[(k + 1) \div 2], channels, bits, isFloat)[((k - 1) % 2) + 1]]

\* frames written for a silent buffer
SilentOutputFrames(n, rate) ==
    IF rate = TargetRate THEN n ELSE TruncDouble(DoubleDiv(n * TargetRate, rate))

\* frames NormalizeAudio writes
NormalizeOutputFrames(n, rate) ==
    IF rate = TargetRate THEN n ELSE TruncDouble(DoubleMulInt(n, DoubleDiv(TargetRate, rate)))

\* static_cast<int16_t>(std::clamp(x, -1.0f, 1.0f) * 32767.0f) of the sample
\* x = num / den (den > 0): truncation toward zero
ToInt16(num, den) ==
    LET c == Clamp(num, -(FullScale * den), FullScale * den)
        a == IF c < 0 THEN -c ELSE c
        q == a \div den
        r == a % den
        mag == IF r * FullScale >= a THEN q ELSE q - 1
    IN  IF c < 0 THEN -mag ELSE mag

DirectOutputSmoothed(buf) ==
    [k \in 1..Len(buf) |-> ToInt16(buf[k] + buf[IF k + 2 <= Len(buf) THEN k + 2 ELSE k], 2)]

\* the 48 kHz path: every float converted on its own
DirectOutput(buf) == [k \in 1..Len(buf) |-> ToInt16(buf[k], 1)]

\* the resampling loop for n >= 2 frames in, out >= 2 frames out. The source
\* position i * (n - 1) / (out - 1) and the blend are taken exactly; the
\* code's float rounding moves an occasional sample by one step.
InterpolatedOutput(buf, n, out) ==
    [k \in 1..(2 * out) |->
        LET i == (k - 1) \div 2
            ch == ((k - 1) % 2) + 1
            den == out - 1
            pos == i * (n - 1)
            over == pos \div den >= n - 1
            srcIndex == IF over THEN n - 2 ELSE pos \div den
            frac == IF over THEN den ELSE pos % den
        IN  ToInt16(buf[2 * srcIndex + ch] * (den - frac) + buf[2 * (srcIndex + 1) + ch] * frac, den)]

\* A frame index of the resampling loop is a size_t; it is held as three
\* digits of 16 bits, the most significant first.
Digit == 65536
Index(i) == <<0, 0, i>>

\* srcIndex = numFrames - 2, computed in UINT32
ClampedIndex(n) == IF n >= 2 THEN Index(n - 2) ELSE <<0, Digit - 1, Digit - 2 + n>>

\* srcIndex + 1
IndexSucc(d) ==
    IF d[3] < Digit - 1 THEN <<d[1], d[2], d[3] + 1>>
    ELSE IF d[2] < Digit - 1 THEN <<d[1], d[2] + 1, 0>>
    ELSE <<d[1] + 1, 0, 0>>

\* srcIndex of output frame i after the test `srcIndex >= numFrames - 1`
SourceIndex(i, n, out) ==
    IF (i * (n - 1)) \div (out - 1) >= n - 1 THEN ClampedIndex(n)
    ELSE Index((i * (n - 1)) \div (out - 1))

\* the sets of frame indices the resampling loop may read for n native
\* frames and out output frames at a rate other than 48 kHz. With one
\* native frame the test holds for any srcIndex; with one output frame of two
\* or more native frames srcIndex is the conversion of NaN, any value, which
\* the test leaves alone if it is below numFrames - 1.
ResampleReads(n, rate, out) ==
    IF rate = TargetRate \/ out = 0 THEN {{}}
    ELSE IF n = 1 THEN {{ClampedIndex(n), IndexSucc(ClampedIndex(n))}}
    ELSE IF out = 1 THEN {{Index(k), Index(k + 1)} : k \in 0..(n - 2)}
    ELSE {UNION {{SourceIndex(i, n, out), IndexSucc(SourceIndex(i, n, out))} : i \in 0..(out - 1)}}

\* what an out-of-range read or an out-of-range float conversion may leave in
\* an output sample
GarbageSamples == {-32767, 0, 32767}

\* NormalizeAudio: the output buffers it may leave, or "crash".
\*  - one native frame at a rate other than 48 kHz: the index test
\*    srcIndex >= numFrames - 1 holds for every output frame and srcIndex
\*    becomes numFrames - 2, which wraps around: both reads are far outside
\*    m_resampleBuffer;
\*  - one output frame from two or more native frames: the ratio is
\*    (numFrames - 1) / 0, the source position 0 * inf is NaN and its
\*    conversion to size_t is undefined; the x64 conversion yields a value
\*    the index test clamps to the last frame pair, any other value leaves
\*    NaN in both samples of the frame.
Returned(samples) == [crashed |-> FALSE, samples |-> samples]
Crashed == [crashed |-> TRUE, samples |-> <<>>]

NormalizeAudio(frames, n, rate, channels, bits, isFloat) ==
    LET buf == ResampleBuffer(frames, channels, bits, isFloat)
        out == NormalizeOutputFrames(n, rate)
    IN  IF rate = TargetRate THEN {Returned(DirectOutput(buf))}
        ELSE IF out = 0 THEN {Returned(<<>>)}
        ELSE IF n = 1 THEN {Crashed} \cup {Returned(g) : g \in [1..(2 * out) -> GarbageSamples]}
        ELSE IF out = 1 THEN {Returned(<<ToInt16(buf[2 * n - 1], 1), ToInt16(buf[2 * n], 1)>>)}
                             \cup {Returned(<<g, g>>) : g \in GarbageSamples}
        ELSE {Returned(InterpolatedOutput(buf, n, out))}

\* the header of Protocol.h: two fields set by its constructor
AudioPacketHeader(frameCount, timestampMs) ==
    [frameCount |-> frameCount, timestampMs |-> timestampMs]
SizeofHeader == 4 + 8
SizeofInt16 == 2

PacketFrameCountInSamples(outputBuffer) == Len(outputBuffer)

\* the frame count written to the header
PacketFrameCount(outputBuffer) == Len(outputBuffer) \div 2

\* ---- the session is initialized and started: the mix format is parsed
AdStart ==
    /\ ad_pc = "start"
    /\ \E rate \in Rates, ch \in Channels, fmt \in Formats, cb \in Callbacks :
          /\ m_sampleRate' = rate
          /\ m_channels' = ch
          /\ m_bitsPerSample' = fmt[1]
          /\ m_isFloat' = fmt[2]
          /\ m_callback' = cb
    /\ initState' = "ok"
    /\ m_running' = TRUE
    /\ ad_pc' = "idle"
    /\ UNCHANGED <<numFrames, silent, data, timestamp, m_outputBuffer, srcReads, packet>>
    /\ UNCHANGED <<clientVars, lastCall, destroyed, fault, audioVars, displayVars,
                   videoVars, windowVars, videoDataVars, extVars, timeVars>>

\* ---- GetBuffer returns a buffer; the timestamp is taken. One buffer is
\* followed through the iteration: both branches below resize m_outputBuffer
\* and overwrite all of it, so nothing of an earlier iteration is read.
AdGetBuffer ==
    /\ ad_pc = "idle"
    /\ \E n \in FrameCounts(m_sampleRate), s \in BOOLEAN, seed \in 0..(NumPatterns - 1) :
          /\ s => seed = 0
          /\ numFrames' = n
          /\ silent' = s
          /\ data' = Waveform(seed, n, m_channels, m_bitsPerSample, m_isFloat)
    /\ timestamp' \in Timestamps
    /\ ad_pc' = "have"
    /\ UNCHANGED <<m_sampleRate, m_channels, m_bitsPerSample, m_isFloat, m_outputBuffer,
                   srcReads, packet>>
    /\ UNCHANGED <<clientVars, sessVars, audioVars, displayVars, videoVars, windowVars,
                   videoDataVars, extVars, timeVars>>

\* ---- m_outputBuffer is written: zeros for a silent buffer, NormalizeAudio otherwise
AdFill ==
    /\ ad_pc = "have"
    /\ \E result \in IF silent
                     THEN {Returned(Zeros(2 * SilentOutputFrames(numFrames, m_sampleRate)))}
                     ELSE NormalizeAudio(data, numFrames, m_sampleRate, m_channels,
                                         m_bitsPerSample, m_isFloat) :
          IF result.crashed
          THEN /\ fault' = "crashed"
               /\ ad_pc' = "crashed"
               /\ UNCHANGED m_outputBuffer
          ELSE /\ m_outputBuffer' = result.samples
               /\ ad_pc' = "filled"
               /\ UNCHANGED fault
    /\ srcReads' \in IF silent THEN {{}}
                     ELSE ResampleReads(numFrames, m_sampleRate,
                                        NormalizeOutputFrames(numFrames, m_sampleRate))
    /\ UNCHANGED <<m_sampleRate, m_channels, m_bitsPerSample, m_isFloat, numFrames, silent,
                   data, timestamp, packet>>
    /\ UNCHANGED <<clientVars, initState, m_running, m_callback, lastCall, destroyed,
                   audioVars, displayVars, videoVars, windowVars, videoDataVars, extVars, timeVars>>

\* ---- the packet is built and handed to the callback unless the output is empty
AdEmit ==
    /\ ad_pc = "filled"
    /\ IF m_callback # 0 /\ m_outputBuffer # <<>>
       THEN /\ packet' = [header |-> AudioPacketHeader(PacketFrameCount(m_outputBuffer), timestamp),
                          payload |-> m_outputBuffer,
                          size |-> SizeofHeader + Len(m_outputBuffer) * SizeofInt16,
                          timestamp |-> timestamp]
            /\ ad_pc' = "emitted"
       ELSE /\ UNCHANGED packet
            /\ ad_pc' = "skipped"
    /\ UNCHANGED <<m_sampleRate, m_channels, m_bitsPerSample, m_isFloat, numFrames, silent,
                   data, timestamp, m_outputBuffer, srcReads>>
    /\ UNCHANGED <<clientVars, sessVars, audioVars, displayVars, videoVars, windowVars,
                   videoDataVars, extVars, timeVars>>

InitAudioData ==
    /\ InitCapture
    /\ kind = "audio"
    /\ client = "api"
    /\ main_pc = "none"
    /\ VideoDataOff
    /\ TimeOff
    /\ ExtOff
    /\ ad_pc = "start"
    /\ m_sampleRate = 0
    /\ m_channels = 0
    /\ m_bitsPerSample = 0
    /\ m_isFloat = FALSE
    /\ numFrames = 0
    /\ silent = FALSE
    /\ data = <<>>
    /\ timestamp = 0
    /\ m_outputBuffer = <<>>
    /\ srcReads = {}
    /\ packet = <<>>

NextAudioData == AdStart \/ AdGetBuffer \/ AdFill \/ AdEmit

SpecAudioData == InitAudioData /\ [][NextAudioData]_vars

\* ===================================================== video frames, data
\* ------------------------------------------------------------------ bounds
\* widths and heights, requested and native, run over 1..MaxDim
MaxDim == 3

Dims == 1..MaxDim
Coords(w, h) == (0..(w - 1)) \X (0..(h - 1))

\* a pixel of a captured frame: the frame's pattern and the pixel's place
Pixel(seed, x, y) == <<seed, x, y>>
\* a pixel nothing was copied to
Blank == <<-1, -1, -1>>

Texture(w, h, pix) == [w |-> w, h |-> h, pix |-> pix]

\* the frame the OS delivers, of the native size
FrameTexture(seed, w, h) ==
    Texture(w, h, [p \in Coords(w, h) |-> Pixel(seed, p[1], p[2])])

\* a texture created without initial data
NewTexture(w, h) == Texture(w, h, [p \in Coords(w, h) |-> Blank])

NeedsScaling(width, height, nativeW, nativeH) == width # nativeW \/ height # nativeH

ConverterSizeNative(width, height, nativeW, nativeH) == <<nativeW, nativeH>>

\* the size the colour converter is initialized with
ConverterSize(width, height, nativeW, nativeH) == <<width, height>>

\* GpuColorConverter::Initialize: m_nv12Size
NV12Size(width, height) == (width * height * 3) \div 2

\* CopySubresourceRegion(dst, 0, 0, 0, 0, src, 0, &srcBox) with the box
\* (0, 0)..(width, height): the textures dst may be left as, or "removed".
\* A box inside the source is copied pixel by pixel. A box that reaches
\* outside the source is undefined in Direct3D 11: nothing is copied, or the
\* part inside the source is, or the device is removed.
BoxInside(src, width, height) == width <= src.w /\ height <= src.h

Clipped(dst, src, width, height) ==
    Texture(dst.w, dst.h,
            [p \in Coords(dst.w, dst.h) |->
                IF p[1] < width /\ p[2] < height /\ p[1] < src.w /\ p[2] < src.h
                THEN src.pix[p] ELSE dst.pix[p]])

CopySubresourceRegion(dst, src, width, height) ==
    IF BoxInside(src, width, height)
    THEN {[removed |-> FALSE, texture |-> Clipped(dst, src, width, height)]}
    ELSE {[removed |-> FALSE, texture |-> dst],
          [removed |-> FALSE, texture |-> Clipped(dst, src, width, height)],
          [removed |-> TRUE, texture |-> dst]}

\* bytes the driver may pad a row of the mapped staging texture with
MaxPadding == 1

\* a plane of half the height whose last row is kept for an odd height
UvHeightRoundedUp(height) == (height + 1) \div 2

\* int uvHeight = m_height / 2;
UvHeight(height) == height \div 2

\* memcpy(dst + y * m_width, src + y * mapped.RowPitch, m_width) for the rows
\* of one plane: dst and src are the offsets the plane starts at
PlaneCopies(dst, src, rows, width, rowPitch) ==
    {<<dst + y * width + x, src + y * rowPitch + x>> : y \in 0..(rows - 1), x \in 0..(width - 1)}

\* GpuColorConverter::Convert after Map: the Y plane, then the UV plane,
\* which starts at RowPitch * m_height in the texture and at
\* m_width * m_height in the buffer
Nv12Copies(width, height, rowPitch) ==
    PlaneCopies(0, 0, height, width, rowPitch)
        \cup PlaneCopies(width * height, rowPitch * height, UvHeight(height), width, rowPitch)

\* ---- Initialize succeeds and Start is called
VdStart ==
    /\ v_pc = "start"
    /\ \E width \in Dims, height \in Dims, nativeW \in Dims, nativeH \in Dims, cb \in Callbacks :
          LET size == ConverterSize(width, height, nativeW, nativeH)
          IN  /\ m_width' = width
              /\ m_height' = height
              /\ nativeWidth' = nativeW
              /\ nativeHeight' = nativeH
              /\ m_needsScaling' = NeedsScaling(width, height, nativeW, nativeH)
              /\ processTexture' = IF NeedsScaling(width, height, nativeW, nativeH)
                                   THEN NewTexture(width, height) ELSE <<>>
              /\ m_nv12Size' = NV12Size(size[1], size[2])
              /\ m_callback' = cb
    /\ m_colorConverter' = "ready"
    /\ initState' = "ok"
    /\ m_running' = TRUE
    /\ v_pc' = "idle"
    /\ UNCHANGED <<desktopTexture, v_call, nv12Copies>>
    /\ UNCHANGED <<clientVars, lastCall, destroyed, fault, audioVars, displayVars,
                   windowVars, audioDataVars, extVars, timeVars>>

\* ---- the OS delivers a frame of the native size
VdAcquire ==
    /\ v_pc \in {"idle", "emitted"}
    /\ \E seed \in 0..(NumPatterns - 1) :
          desktopTexture' = FrameTexture(seed, nativeWidth, nativeHeight)
    /\ v_pc' = "frame"
    /\ UNCHANGED <<m_width, m_height, nativeWidth, nativeHeight, m_nv12Size, processTexture, v_call,
                   nv12Copies>>
    /\ UNCHANGED <<clientVars, sessVars, audioVars, displayVars, videoVars, windowVars,
                   audioDataVars, extVars, timeVars>>

\* ---- the frame is copied: into m_scaledTexture by the requested box if the
\* sizes differ, else as a whole into a texture created for it
VdCopy ==
    /\ v_pc = "frame"
    /\ IF m_needsScaling
       THEN \E r \in CopySubresourceRegion(processTexture, desktopTexture, m_width, m_height) :
               /\ processTexture' = r.texture
               /\ v_pc' = IF r.removed THEN "lost" ELSE "copied"
       ELSE \/ /\ processTexture' = desktopTexture
               /\ v_pc' = "copied"
            \/ /\ kind = "display"            \* CreateTexture2D failed: no frame this tick
               /\ v_pc' = "idle"
               /\ UNCHANGED processTexture
    /\ UNCHANGED <<m_width, m_height, nativeWidth, nativeHeight, m_nv12Size, desktopTexture, v_call,
                   nv12Copies>>
    /\ UNCHANGED <<clientVars, sessVars, audioVars, displayVars, videoVars, windowVars,
                   audioDataVars, extVars, timeVars>>

\* ---- Convert, and the callback with the converter's size if it succeeded
VdConvert ==
    /\ v_pc = "copied"
    /\ \/ /\ m_callback # 0
          /\ \E padding \in 0..MaxPadding :
                LET size == ConverterSize(m_width, m_height, nativeWidth, nativeHeight)
                IN  nv12Copies' = Nv12Copies(size[1], size[2], size[1] + padding)
          /\ v_call' = [size |-> m_nv12Size]
          /\ v_pc' = "emitted"
       \/ /\ v_pc' = "idle"
          /\ UNCHANGED <<v_call, nv12Copies>>
    /\ UNCHANGED <<m_width, m_height, nativeWidth, nativeHeight, m_nv12Size, desktopTexture,
                   processTexture>>
    /\ UNCHANGED <<clientVars, sessVars, audioVars, displayVars, videoVars, windowVars,
                   audioDataVars, extVars, timeVars>>

InitVideoData ==
    /\ InitCapture
    /\ kind \in {"display", "window"}
    /\ client = "api"
    /\ main_pc = "none"
    /\ AudioDataOff
    /\ TimeOff
    /\ ExtOff
    /\ v_pc = "start"
    /\ m_width = 0
    /\ m_height = 0
    /\ nativeWidth = 0
    /\ nativeHeight = 0
    /\ m_nv12Size = 0
    /\ desktopTexture = <<>>
    /\ processTexture = <<>>
    /\ v_call = <<>>
    /\ nv12Copies = {}

NextVideoData == VdStart \/ VdAcquire \/ VdCopy \/ VdConvert

SpecVideoData == InitVideoData /\ [][NextVideoData]_vars

\* ===================================================== frame rate limiting
\* DisplayCapturer::CaptureLoop followed for its schedule alone.  Time is in
\* ticks of the monotonic clock; it passes between any two steps of the
\* thread (the loop body, a preemption or an oversleeping sleep_for can take
\* any time).
\* longest frame period, in ticks
MaxPeriod == 3
\* the clock is followed up to this time
MaxTime == 8

\* the clock advances
ClockTick(limit) ==
    /\ now < limit
    /\ now' = now + 1
    /\ UNCHANGED <<clientVars, sessVars, audioVars, displayVars, videoVars, windowVars,
                   audioDataVars, videoDataVars, extVars, paceVars, stampVars>>

\* nextFrameTime += frameDuration
ScheduledTick(next, period) == next + period

\* a loop that keeps its old schedule when it is behind
BehindScheduleKept(next, t) == next

\* nextFrameTime = steady_clock::now(), taken when the loop is behind
BehindSchedule(next, t) == t

\* Start() on an initialized session: the thread enters CaptureLoop;
\* frameDuration = microseconds(1000000 / m_fps), nextFrameTime = now()
PcStart ==
    /\ p_pc = "off"
    /\ \E period \in 1..MaxPeriod : frameDuration' = period
    /\ nextFrameTime' = now
    /\ p_pc' = "check"
    /\ initState' = "ok"
    /\ m_running' = TRUE
    /\ UNCHANGED <<wakeAt, resetAt>>
    /\ UNCHANGED <<clientVars, m_callback, lastCall, destroyed, fault, audioVars, displayVars,
                   videoVars, windowVars, audioDataVars, videoDataVars, extVars, now, stampVars>>

\* Stop(): m_running = false
PcStop ==
    /\ p_pc # "off" /\ m_running
    /\ m_running' = FALSE
    /\ UNCHANGED <<clientVars, initState, m_callback, lastCall, destroyed, fault, audioVars,
                   displayVars, videoVars, windowVars, audioDataVars, videoDataVars, extVars, timeVars>>

\* while (m_running)
PcLoopCheck ==
    /\ p_pc = "check"
    /\ p_pc' = IF m_running THEN "body" ELSE "exited"
    /\ UNCHANGED <<frameDuration, nextFrameTime, wakeAt, resetAt>>
    /\ UNCHANGED <<clientVars, sessVars, audioVars, displayVars, videoVars, windowVars,
                   audioDataVars, videoDataVars, extVars, now, stampVars>>

\* the body of the iteration: AcquireNextFrame, Convert, the callback
PcBody ==
    /\ p_pc = "body"
    /\ p_pc' = "limit"
    /\ UNCHANGED <<frameDuration, nextFrameTime, wakeAt, resetAt>>
    /\ UNCHANGED <<clientVars, sessVars, audioVars, displayVars, videoVars, windowVars,
                   audioDataVars, videoDataVars, extVars, now, stampVars>>

\* nextFrameTime += frameDuration; sleepTime = nextFrameTime - now();
\* if (sleepTime > 0) sleep_for(sleepTime) else (behind)
PcLimit ==
    /\ p_pc = "limit"
    /\ nextFrameTime' = ScheduledTick(nextFrameTime, frameDuration)
    /\ LET sleepTime == nextFrameTime' - now
       IN  IF sleepTime > 0
           THEN p_pc' = "sleeping" /\ wakeAt' = now + sleepTime
           ELSE p_pc' = "behind" /\ UNCHANGED wakeAt
    /\ UNCHANGED <<frameDuration, resetAt>>
    /\ UNCHANGED <<clientVars, sessVars, audioVars, displayVars, videoVars, windowVars,
                   audioDataVars, videoDataVars, extVars, now, stampVars>>

\* sleep_for returns, not before the time asked for
PcWake ==
    /\ p_pc = "sleeping"
    /\ now >= wakeAt
    /\ p_pc' = "check"
    /\ resetAt' = -1
    /\ UNCHANGED <<frameDuration, nextFrameTime, wakeAt>>
    /\ UNCHANGED <<clientVars, sessVars, audioVars, displayVars, videoVars, windowVars,
                   audioDataVars, videoDataVars, extVars, now, stampVars>>

\* We're behind, reset timing: nextFrameTime = steady_clock::now()
PcReset ==
    /\ p_pc = "behind"
    /\ nextFrameTime' = BehindSchedule(nextFrameTime, now)
    /\ resetAt' = now
    /\ p_pc' = "check"
    /\ UNCHANGED <<frameDuration, wakeAt>>
    /\ UNCHANGED <<clientVars, sessVars, audioVars, displayVars, videoVars, windowVars,
                   audioDataVars, videoDataVars, extVars, now, stampVars>>

PcTick == ClockTick(MaxTime)

InitPacing ==
    /\ InitCapture
    /\ kind = "display"
    /\ client = "api"
    /\ main_pc = "none"
    /\ AudioDataOff
    /\ VideoDataOff
    /\ TimeOff
    /\ ExtOff

NextPacing == PcStart \/ PcStop \/ PcLoopCheck \/ PcBody \/ PcLimit \/ PcWake \/ PcReset \/ PcTick

SpecPacing == InitPacing /\ [][NextPacing]_vars

\* ===================================================== timestamps
\* The audio and the display session with the clock their timestamps are
\* read from: the public methods and the thread steps are those above, and
\* the steps that read the clock or pass a timestamp on record it.
\* QueryPerformanceFrequency: ticks per second
QpcFrequency == 2000
\* the clock is followed up to this time
MaxStampTime == 2

\* uint64_t timestamp = now.QuadPart * 1000 / m_frequency.QuadPart
DisplayTimestamp(t) == (t * 1000) \div QpcFrequency

\* (now.QuadPart - m_startTime.QuadPart) * 1000 / m_frequency.QuadPart
AudioTimestamp(t, start) == ((t - start) * 1000) \div QpcFrequency

\* Start(callback); AudioCapturer::Start reads m_startTime once the OS
\* stream has started, before it creates the thread
StStart ==
    /\ Alive /\ client = "api" /\ c_pc = "idle"
    /\ \E cb \in Callbacks : Start(cb)
    /\ m_startTime' = IF kind = "audio" /\ ~m_running /\ m_audioClient' = "started"
                      THEN now ELSE m_startTime
    /\ lastTimestamp' = IF lastCall' = "started" THEN -1 ELSE lastTimestamp
    /\ UNCHANGED <<clientVars, audioDataVars, videoDataVars, extVars, now, paceVars, a_timestamp, d_timestamp>>

\* AudioCapturer::CaptureLoop: the timestamp is computed when GetBuffer has
\* returned the buffer and handed to the callback with the packet
StAudioThread ==
    /\ Alive
    /\ \/ AudioLoopCheck \/ AudioGetPacketSize \/ AudioInnerCheck \/ AudioGetBuffer
       \/ AudioReleaseBuffer \/ AudioEmit \/ AudioNextPacketSize \/ AudioSleep
    /\ a_timestamp' = IF a_pc = "getbuffer" /\ a_pc' = "release"
                      THEN AudioTimestamp(now, m_startTime) ELSE a_timestamp
    /\ lastTimestamp' = IF a_pc = "emit" /\ m_callback # 0 /\ ~outputEmpty
                        THEN a_timestamp ELSE lastTimestamp
    /\ UNCHANGED <<audioDataVars, videoDataVars, extVars, now, paceVars, m_startTime, d_timestamp>>

\* DisplayCapturer::CaptureLoop: the timestamp is computed when
\* AcquireNextFrame has returned true and handed to the callback with the
\* converted frame
StDisplayThread ==
    /\ Alive
    /\ \E t \in Threads :
          /\ \/ DisplayLoopCheck(t) \/ DisplayAcquireBegin(t) \/ DisplayOsAcquire(t)
             \/ DisplayCopyFrame(t) \/ DisplayConvert(t) \/ DisplayEmit(t) \/ DisplayPace(t)
          /\ d_timestamp' = IF d_pc[t] = "copy" /\ d_pc'[t] = "convert"
                            THEN [d_timestamp EXCEPT ![t] = DisplayTimestamp(now)]
                            ELSE d_timestamp
          /\ lastTimestamp' = IF d_pc[t] = "emit" /\ m_callback # 0
                              THEN d_timestamp[t] ELSE lastTimestamp
    /\ UNCHANGED <<audioDataVars, videoDataVars, extVars, now, paceVars, m_startTime, a_timestamp>>

StTick == ClockTick(MaxStampTime)

InitStamps ==
    /\ InitCapture
    /\ kind \in {"audio", "display"}
    /\ client = "api"
    /\ main_pc = "none"
    /\ AudioDataOff
    /\ VideoDataOff
    /\ TimeOff
    /\ ExtOff

NextStamps ==
    \/ ApiInitialize \/ StStart \/ ApiStop \/ StopResume
    \/ StAudioThread \/ StDisplayThread \/ StTick

SpecStamps == InitStamps /\ [][NextStamps]_vars

\* ===================================================== duplicated frames
\* The display session with the frames of its duplication handle followed.
\* IDXGIOutputDuplication hands out one frame at a time: AcquireNextFrame
\* fails with DXGI_ERROR_INVALID_CALL while a frame is outstanding, and
\* ReleaseFrame gives back the outstanding frame of the handle it is called
\* on.  A frame goes away with its handle.

\* hr = m_duplication->AcquireNextFrame(...): a success leaves the frame
\* outstanding; m_duplication.Reset() on access-loss destroys the handle
FrOsAcquire(t) ==
    /\ DisplayOsAcquire(t)
    /\ framesOut # {} => (d_pc'[t] # "copy" /\ d_hr'[t] # "timeout")
    /\ framesOut' = CASE d_pc'[t] = "copy" -> {t}
                      [] d_hr'[t] = "lost" -> {}
                      [] OTHER -> framesOut

\* ReinitializeDuplication resets the handle before it duplicates again
FrAcquireBegin(t) ==
    /\ DisplayAcquireBegin(t)
    /\ framesOut' = IF d_reinits'[t] # d_reinits[t] THEN {} ELSE framesOut

\* every return after the acquisition calls m_duplication->ReleaseFrame()
FrCopyFrame(t) ==
    /\ DisplayCopyFrame(t)
    /\ framesOut' = IF fault' # fault THEN framesOut ELSE {}

FrThread ==
    /\ Alive
    /\ UNCHANGED <<audioDataVars, videoDataVars, timeVars, rendererVars>>
    /\ \E t \in Threads :
          \/ FrAcquireBegin(t) \/ FrOsAcquire(t) \/ FrCopyFrame(t)
          \/ /\ \/ DisplayLoopCheck(t) \/ DisplayConvert(t) \/ DisplayEmit(t) \/ DisplayPace(t)
             /\ UNCHANGED frameVars

InitFrames ==
    /\ InitCommon
    /\ kind = "display"
    /\ client = "api"
    /\ main_pc = "none"

NextFrames ==
    \/ ApiInitialize \/ ApiStart \/ ApiStop
    \/ FrThread

SpecFrames == InitFrames /\ [][NextFrames]_vars

\* ===================================================== renderer C APIs
\* The exported functions of the two renderer libraries and the decoders
\* behind them.  Every section under s_mutex is one step.  CApi.cpp keeps
\* the lock over the decoder call, capi.c unlocks before it; both destroy
\* the decoder after unlocking.

\* VaapiDecoder after vaapi_decoder_create: calloc, all fields zero
VaNewDecoder ==
    [alloc |-> TRUE, initialized |-> FALSE, config |-> 0, renderer |-> FALSE,
     decoded |-> FALSE, initReturnedTrue |-> FALSE]

\* MediaFoundationDecoder after its constructor: not initialized, no
\* renderer (the member initializers are in MediaFoundationDecoder.h)
MfNewDecoder ==
    [alloc |-> TRUE, initialized |-> FALSE, config |-> 0, renderer |-> FALSE,
     decoded |-> FALSE, initReturnedTrue |-> FALSE]

NewDecoder(p) == IF p = "linux" THEN VaNewDecoder ELSE MfNewDecoder

\* a registry lookup that takes the handle for the decoder
FindDecoderUnchecked(instances, handle) == handle

\* find_decoder / s_instances.find: the decoder of a handle, NULL if the
\* registry does not hold the handle
FindDecoder(instances, handle) == IF handle \in instances THEN handle ELSE NullHandle

\* how Initialize can end on a decoder that is not initialized: "ok", or a
\* failure before the renderer exists, when it is created, when it is
\* initialized
InitOutcomes == {"ok", "early", "norenderer", "rendererinit"}

\* Initialize without its first test
DecoderInitializeAgain(p, d, cfg, outcome) ==
    [dec |-> [d EXCEPT !.initialized = (outcome = "ok"),
                       !.config = cfg,
                       !.renderer = IF p = "linux"
                                    THEN CASE outcome = "early" -> d.renderer
                                           [] outcome = "norenderer" -> FALSE
                                           [] OTHER -> TRUE
                                    ELSE outcome = "ok",
                       !.initReturnedTrue = d.initReturnedTrue \/ outcome = "ok"],
     res |-> IF outcome = "ok" THEN "true" ELSE "false"]

\* vaapi_decoder_initialize / MediaFoundationDecoder::Initialize: refused on
\* an initialized decoder; else the configuration is stored first and every
\* later step can fail.  vaapi_decoder_initialize returns where it fails,
\* MediaFoundationDecoder::Initialize runs Cleanup() first.
DecoderInitialize(p, d, cfg, outcome) ==
    IF d.initialized
    THEN [dec |-> d, res |-> "false"]
    ELSE [dec |-> [d EXCEPT !.initialized = (outcome = "ok"),
                            !.config = cfg,
                            !.renderer = IF p = "linux"
                                         THEN CASE outcome = "early" -> d.renderer
                                                [] outcome = "norenderer" -> FALSE
                                                [] OTHER -> TRUE
                                         ELSE outcome = "ok",
                            !.initReturnedTrue = d.initReturnedTrue \/ outcome = "ok"],
          res |-> IF outcome = "ok" THEN "true" ELSE "false"]

\* how decoding can end on an initialized decoder: "ok", or a failure before
\* or after the NAL unit was handed to the decoder
DecodeOutcomes == {"ok", "failEarly", "failLate"}

\* vaapi_decoder_decode_and_render / MediaFoundationDecoder::DecodeAndRender
DecoderDecode(d, outcome) ==
    IF ~d.initialized
    THEN [dec |-> d, res |-> "false"]
    ELSE [dec |-> [d EXCEPT !.decoded = d.decoded \/ outcome # "failEarly"],
          res |-> IF outcome = "ok" THEN "true" ELSE "false"]

\* vaapi_decoder_get_view / MediaFoundationDecoder::GetView
DecoderGetView(d) == [dec |-> d, res |-> IF d.renderer THEN "view" ELSE "null"]

\* vaapi_decoder_set_display_size / MediaFoundationDecoder::SetDisplaySize
DecoderSetDisplaySize(d) == [dec |-> d, res |-> "void"]

RendererOps == {"initialize", "decode", "get_view", "set_display_size"}

\* what an operation returns without a decoder
NoDecoderResult(op) ==
    CASE op \in {"initialize", "decode"} -> "false"
      [] op = "get_view" -> "null"
      [] OTHER -> "void"

\* the decoder call of an operation: its outcomes
DecoderCall(p, op, d, cfg) ==
    CASE op = "initialize" -> {DecoderInitialize(p, d, cfg, o) : o \in InitOutcomes}
      [] op = "decode" -> {DecoderDecode(d, o) : o \in DecodeOutcomes}
      [] op = "get_view" -> {DecoderGetView(d)}
      [] OTHER -> {DecoderSetDisplaySize(d)}

RendererAlive == platform # "off" /\ r_fault = "none"

\* the call of thread t returns
RnReturn(t, op, h, res) ==
    /\ r_ret' = [op |-> op, h |-> h, res |-> res]
    /\ r_pc' = [r_pc EXCEPT ![t] = Idle]

\* the decoder call on address d; a freed address is a use after free
RnOnDecoder(t, op, d, cfg) ==
    IF heap[d].alloc
    THEN /\ \E r \in DecoderCall(platform, op, heap[d], cfg) :
               /\ heap' = [heap EXCEPT ![d] = r.dec]
               /\ RnReturn(t, op, d, r.res)
         /\ UNCHANGED <<s_instances, r_fault>>
    ELSE /\ r_fault' = "uaf"
         /\ UNCHANGED <<s_instances, heap, r_pc, r_ret>>

\* va_decoder_create / mf_decoder_create: the allocation can fail, and so
\* can the insertion into the registry: add_instance then returns without a
\* node and the handle is returned all the same, mf_decoder_create catches
\* the exception and returns nullptr
RnCreate(t) ==
    /\ r_pc[t] = Idle
    /\ \/ /\ RnReturn(t, "create", NullHandle, "null")
          /\ UNCHANGED <<s_instances, heap>>
       \/ \E h \in Handles, registered \in BOOLEAN :
             /\ ~heap[h].alloc
             /\ heap' = [heap EXCEPT ![h] = NewDecoder(platform)]
             /\ s_instances' = IF registered THEN s_instances \cup {h} ELSE s_instances
             /\ IF registered \/ platform = "linux"
                THEN RnReturn(t, "create", h, "handle")
                ELSE RnReturn(t, "create", NullHandle, "null")
    /\ UNCHANGED <<platform, r_fault>>

\* va_decoder_destroy / mf_decoder_destroy up to the unlock: the handle is
\* taken out of the registry
RnDestroy(t, h) ==
    /\ r_pc[t] = Idle
    /\ LET decoder == FindDecoder(s_instances, h)
       IN  IF h = NullHandle \/ decoder = NullHandle
           THEN /\ RnReturn(t, "destroy", h, "void")
                /\ UNCHANGED s_instances
           ELSE /\ s_instances' = s_instances \ {h}
                /\ r_pc' = [r_pc EXCEPT ![t] = [op |-> "destroy", dec |-> decoder, cfg |-> 0]]
                /\ UNCHANGED r_ret
    /\ UNCHANGED <<platform, heap, r_fault>>

\* vaapi_decoder_destroy(decoder) / delete decoder
RnFree(t) ==
    /\ r_pc[t].op = "destroy"
    /\ LET d == r_pc[t].dec
       IN  IF heap[d].alloc
           THEN /\ heap' = [heap EXCEPT ![d] = Freed]
                /\ RnReturn(t, "destroy", d, "void")
                /\ UNCHANGED r_fault
           ELSE /\ r_fault' = "doublefree"
                /\ UNCHANGED <<heap, r_pc, r_ret>>
    /\ UNCHANGED <<platform, s_instances>>

\* an operation up to the unlock: the NULL test and the lookup; CApi.cpp
\* calls the decoder before it unlocks
RnLookup(t, op, h, cfg) ==
    /\ r_pc[t] = Idle
    /\ LET decoder == FindDecoder(s_instances, h)
       IN  IF h = NullHandle \/ decoder = NullHandle
           THEN /\ RnReturn(t, op, h, NoDecoderResult(op))
                /\ UNCHANGED <<s_instances, heap, r_fault>>
           ELSE IF platform = "windows"
                THEN RnOnDecoder(t, op, decoder, cfg)
                ELSE /\ r_pc' = [r_pc EXCEPT ![t] = [op |-> op, dec |-> decoder, cfg |-> cfg]]
                     /\ UNCHANGED <<s_instances, heap, r_ret, r_fault>>
    /\ UNCHANGED platform

\* capi.c after the unlock: return vaapi_decoder_<op>(decoder, ...)
RnCall(t) ==
    /\ r_pc[t].op \in RendererOps
    /\ RnOnDecoder(t, r_pc[t].op, r_pc[t].dec, r_pc[t].cfg)
    /\ UNCHANGED platform

\* a process that loaded a renderer library runs no capture session
RendererOnly ==
    /\ RendererAlive
    /\ UNCHANGED <<clientVars, sessVars, audioVars, displayVars, videoVars, windowVars,
                   audioDataVars, videoDataVars, timeVars, frameVars>>

RendererCreate ==
    /\ RendererOnly
    /\ \E t \in Callers : RnCreate(t)

RendererDestroy ==
    /\ RendererOnly
    /\ \E t \in Callers, h \in 0..MaxHandles : RnDestroy(t, h)

RendererFree ==
    /\ RendererOnly
    /\ \E t \in Callers : RnFree(t)

RendererLookup ==
    /\ RendererOnly
    /\ \E t \in Callers, op \in RendererOps, h \in 0..MaxHandles, cfg \in Configs :
          RnLookup(t, op, h, IF op = "initialize" THEN cfg ELSE 0)

RendererCall ==
    /\ RendererOnly
    /\ \E t \in Callers : RnCall(t)

InitRenderer ==
    /\ InitCapture
    /\ kind = "display"
    /\ client = "api"
    /\ main_pc = "none"
    /\ AudioDataOff
    /\ VideoDataOff
    /\ TimeOff
    /\ FramesOff
    /\ platform \in {"windows", "linux"}
    /\ s_instances = {}
    /\ heap = [h \in Handles |-> Freed]
    /\ r_pc = [t \in Callers |-> Idle]
    /\ r_ret = NoCall
    /\ r_fault = "none"

NextRenderer ==
    \/ RendererCreate \/ RendererDestroy \/ RendererFree
    \/ RendererLookup \/ RendererCall

SpecRenderer == InitRenderer /\ [][NextRenderer]_vars

\* ===================================================== termination
\* The audio and the display session under a fair scheduler: a thread that
\* can take a step eventually takes one (every OS call and every callback
\* returns), and a join returns once the thread has finished.
DisplayThreadOf(t) ==
    /\ Alive
    /\ UNCHANGED dataVars
    /\ \/ DisplayLoopCheck(t) \/ DisplayAcquireBegin(t) \/ DisplayOsAcquire(t)
       \/ DisplayCopyFrame(t) \/ DisplayConvert(t) \/ DisplayEmit(t) \/ DisplayPace(t)

InitLive ==
    /\ InitCommon
    /\ kind \in {"audio", "display"}
    /\ client = "api"
    /\ main_pc = "none"

\* Initialize returns true: termination is followed on sessions that were
\* initialized
LiveInitialize ==
    /\ ApiInitialize
    /\ initState' = "ok"

\* Start with the callback of main.cpp
LiveStart ==
    /\ Alive /\ client = "api" /\ c_pc = "idle"
    /\ UNCHANGED dataVars
    /\ initState = "ok"
    /\ Start(MainCallback)
    /\ UNCHANGED clientVars

NextLive ==
    \/ LiveInitialize \/ LiveStart \/ ApiStop \/ StopResume
    \/ AudioThread
    \/ \E t \in Threads : DisplayThreadOf(t)

SpecLive ==
    /\ InitLive /\ [][NextLive]_vars
    /\ WF_vars(AudioThread)
    /\ WF_vars(StopResume)
    /\ \A t \in Threads : WF_vars(DisplayThreadOf(t))

\* ===================================================== specifications
Next ==
    \/ ApiInitialize \/ ApiStart \/ ApiStop \/ ApiDestroy
    \/ StopResume \/ DtorFinish
    \/ AudioThread \/ DisplayThread \/ WindowDelivery \/ UseAfterFree

Spec == Init /\ [][Next]_vars

NextMain ==
    \/ MainInitialize \/ MainStart \/ MainWait \/ MainStop \/ MainDtor \/ MainExit
    \/ ConsoleHandler
    \/ StopResume \/ DtorFinish
    \/ AudioThread \/ DisplayThread \/ WindowDelivery \/ UseAfterFree

SpecMain == InitMain /\ [][NextMain]_vars

TypeOK ==
    /\ kind \in Kinds
    /\ client \in {"api", "main"}
    /\ c_pc \in {"idle", "Stop", "dtor", "dtorEnd", "gone"}
    /\ main_pc \in {"none", "init", "start", "wait", "stop", "dtor", "return", "exit"}
    /\ g_running \in BOOLEAN
    /\ initState \in {"none", "failed", "ok"}
    /\ m_running \in BOOLEAN
    /\ m_callback \in 0..NumCallbacks
    /\ lastCall \in {"none", "started", "rejected", "stopped", "stoppedAgain"}
    /\ destroyed \in BOOLEAN
    /\ fault \in {"none", "crashed"}
    /\ m_audioClient \in {"null", "uninit", "ready", "started"}
    /\ m_captureClient \in BOOLEAN
    /\ m_captureThread \in {"none", "alive", "finished"}
    /\ a_pc \in {"none", "check", "getsize", "inner", "getbuffer", "release", "emit", "nextsize", "sleep"}
    /\ packetLength \in BOOLEAN
    /\ outputEmpty \in BOOLEAN
    /\ loopExit \in {"none", "stopped", "fatal"}
    /\ m_output \in BOOLEAN
    /\ m_duplication \in BOOLEAN
    /\ dupHandles \in 0..2
    /\ d_pc \in [Threads -> {"none", "check", "acquire", "osacquire", "copy", "convert", "emit", "pace"}]
    /\ d_hr \in [Threads -> {"none", "timeout", "lost", "fail", "convert"}]
    /\ d_reinits \in [Threads -> 0..2]
    /\ m_colorConverter \in {"null", "uninit", "ready"}
    /\ m_needsScaling \in BOOLEAN
    /\ m_session \in BOOLEAN
    /\ m_framePool \in BOOLEAN
    /\ m_captureItem \in BOOLEAN
    /\ subscribed \in BOOLEAN
    /\ capturing \in BOOLEAN
    /\ w_pc \in {"none", "frame", "convert", "emit"}


\* ===================================================== properties
\* the step invokes the user callback
AudioCallbackInvoked ==
    a_pc = "emit" /\ a_pc' # "emit" /\ m_callback # 0 /\ ~outputEmpty

DisplayCallbackInvoked ==
    \E t \in Threads : d_pc[t] = "emit" /\ d_pc'[t] # "emit" /\ m_callback # 0

WindowCallbackInvoked ==
    w_pc = "emit" /\ w_pc' # "emit" /\ m_callback # 0

\* C1: AudioCapturer: once Stop has returned (and until Start is called
\* again) no step invokes the callback, whatever the interleaving of the
\* capture thread with Stop.
C1_AudioNoCallbackAfterStop ==
    [][(kind = "audio" /\ stopReturned) => ~AudioCallbackInvoked]_vars

\* a Stop has returned on an audio session whose thread had processed a
\* non-empty buffer for a registered callback and left its loop on the flag
C1_Witness ==
    /\ kind = "audio" /\ initState = "ok"
    /\ stopReturned /\ loopExit = "stopped" /\ m_captureThread = "none"
    /\ m_callback # 0 /\ ~outputEmpty

\* C2: DisplayCapturer: once Stop has returned (and until Start is called
\* again) no step invokes the frame callback.
C2_DisplayNoCallbackAfterStop ==
    [][(kind = "display" /\ stopReturned) => ~DisplayCallbackInvoked]_vars

\* C3: a Start on a session whose Initialize has not returned true is
\* rejected: after it the session is not running, no capture thread exists,
\* no OS capture was started and no call went through a missing handle.
C3_StartBeforeInitializeRejected ==
    (initState # "ok" /\ lastCall \in {"started", "rejected"}) =>
        /\ ~m_running
        /\ m_captureThread = "none"
        /\ \A t \in Threads : d_pc[t] = "none"
        /\ ~capturing
        /\ fault = "none"

\* C4: AudioCapturer: when CaptureLoop has left its loop because
\* GetNextPacketSize failed, the session is not running (IsRunning() is
\* false) although the caller did not call Stop.
C4_AudioFatalEndsSession ==
    (kind = "audio" /\ initState = "ok" /\ loopExit = "fatal" /\ m_captureThread = "finished")
        => ~m_running

\* C5: DisplayCapturer: once an acquisition has failed with an error that
\* is neither a timeout nor access-loss, the session is not running: the
\* loop does not go on to pace the next tick with IsRunning() true.
C5_DisplayFatalEndsSession ==
    \A t \in Threads :
        (kind = "display" /\ initState = "ok" /\ d_hr[t] = "fail" /\ d_pc[t] = "pace")
            => ~m_running

\* C6: for each capturer a Stop call (also the one of the destructor) made
\* after a Stop has returned with no Start in between, or on a session on
\* which neither Start nor Stop was called yet, returns at once and changes
\* nothing of the object: no flag, no handle, no thread, no fault.
C6_StopRepeatable ==
    [][((ApiStop \/ ApiDestroy) /\ (stopReturned \/ lastCall = "none")) =>
          (UNCHANGED objectVars /\ c_pc' \in {"idle", "dtorEnd"} /\ stopReturned')]_vars

\* a second Stop has returned on a session that was initialized and started
C6_Witness ==
    lastCall = "stoppedAgain" /\ initState = "ok" /\ m_callback # 0

\* C7: for each capturer a Start call made while m_running is set changes
\* nothing of the object: no thread is spawned, the OS capture is not
\* started again, the registered callback stays.
C7_StartWhileRunningNoOp ==
    [][(ApiStart /\ m_running) => UNCHANGED objectVars]_vars

\* a Start has returned at its guard on a running, initialized session
C7_Witness ==
    lastCall = "rejected" /\ m_running /\ initState = "ok"

C10_AccessLostOneRecreation ==
    [][\A t \in Threads :
          /\ (d_pc[t] = "osacquire" /\ d_hr'[t] = "lost") =>
                /\ ~m_duplication'
                /\ d_pc'[t] = "pace"
                /\ ~DisplayCallbackInvoked
          /\ (d_hr[t] = "lost" /\ d_pc'[t] # d_pc[t]) =>
                (d_pc[t] = "pace" /\ d_pc'[t] = "check")
          /\ (d_pc[t] = "acquire" /\ d_pc'[t] # "acquire") =>
                d_reinits'[t] = IF m_duplication THEN 0 ELSE 1
          /\ (d_pc[t] = "acquire" /\ d_pc'[t] = "osacquire") => m_duplication'
          /\ d_reinits'[t] <= 1
      ]_vars

\* after Initialize created the handle, a thread of the session recreated
\* it in this tick (the handle had been lost) and is about to acquire
C10_Witness ==
    \E t \in Threads :
        /\ kind = "display" /\ initState = "ok"
        /\ d_pc[t] = "osacquire" /\ d_reinits[t] = 1 /\ m_duplication

\* C11: DisplayCapturer, initialized session: a tick that finds no
\* duplication handle attempts the recreation; when the recreation fails the
\* thread goes straight to the pacing of the tick (no OS acquisition, no
\* callback), m_running and the fault state stay as they are; when it
\* succeeds the thread goes on to the OS acquisition in the same tick; from
\* the pacing a thread only returns to the loop test.
C11_ReinitFailureRetried ==
    [][\A t \in Threads :
          LET reinit == d_pc[t] = "acquire" /\ d_reinits'[t] = d_reinits[t] + 1
          IN  /\ (initState = "ok" /\ reinit /\ ~m_duplication') =>
                    /\ d_pc'[t] = "pace"
                    /\ UNCHANGED <<m_running, fault>>
                    /\ ~DisplayCallbackInvoked
              /\ (initState = "ok" /\ reinit /\ m_duplication') =>
                    d_pc'[t] = "osacquire"
              /\ (d_pc[t] = "acquire" /\ d_pc'[t] # "acquire" /\ ~m_duplication) => reinit
              /\ (d_pc[t] = "pace" /\ d_pc'[t] # "pace") => d_pc'[t] = "check"
      ]_vars

\* the only thread of a running, initialized session ended its tick on a
\* failed recreation
C11_Witness ==
    \E t \in Threads :
        /\ kind = "display" /\ initState = "ok" /\ m_running
        /\ d_pc[t] = "pace" /\ d_reinits[t] = 1 /\ d_hr[t] = "none" /\ ~m_duplication
        /\ \A u \in Threads \ {t} : d_pc[u] = "none"

\* C12: display and window capturers: the step in which Convert returns
\* nullptr invokes no callback and ends the frame (display: the tick goes to
\* its pacing; window: the delivery is over); m_running, the fault state and
\* the capture handles stay as they are, so the next tick or delivery runs.
C12_ConvertFailureSkipsFrame ==
    [][/\ \A t \in Threads :
             (d_pc[t] = "convert" /\ d_hr'[t] = "convert") =>
                /\ d_pc'[t] = "pace"
                /\ UNCHANGED <<m_running, fault, m_duplication, m_colorConverter>>
                /\ ~DisplayCallbackInvoked
       /\ (w_pc = "convert" /\ w_pc' \notin {"convert", "emit"}) =>
                /\ w_pc' = "none"
                /\ UNCHANGED <<m_running, fault, capturing, subscribed, m_session,
                               m_framePool, m_colorConverter>>
                /\ ~WindowCallbackInvoked
      ]_vars

\* a conversion returned nullptr in a running, initialized display session
\* whose thread is now pacing with the handle in place
C12_Witness ==
    \E t \in Threads :
        /\ kind = "display" /\ initState = "ok" /\ m_running /\ m_duplication
        /\ d_pc[t] = "pace" /\ d_hr[t] = "convert"

\* ----------------------------------------------------------------- C14
\* Every audio packet handed to the callback is a header followed by
\* frameCount stereo 16-bit frames: twice the header's frameCount is the
\* number of int16 samples of the payload, the size is the header size plus
\* 4 bytes per frame, and the header carries the callback's timestamp.
C14_PacketLayout ==
    ad_pc = "emitted" =>
        /\ 2 * packet.header.frameCount = Len(packet.payload)
        /\ packet.size = SizeofHeader + packet.header.frameCount * 4
        /\ packet.header.timestampMs = packet.timestamp
        /\ \A i \in 1..Len(packet.payload) : packet.payload[i] \in (-FullScale)..Int16Max

C14_Witness ==
    /\ ad_pc = "emitted" /\ ~silent /\ m_sampleRate = 44100 /\ numFrames = 441
    /\ packet.header.frameCount = 480 /\ packet.timestamp = MaxTimestamp

\* ----------------------------------------------------------------- C15
\* For every native rate and frame count the output written for a silent
\* buffer has as many frames as NormalizeAudio writes for a buffer of real
\* data: whichever path filled m_outputBuffer, its frame count is the one
\* the other path computes for the same rate and frame count.
C15_SilentCountEqualsNormalizeCount ==
    ad_pc = "filled" =>
        Len(m_outputBuffer) = 2 * (IF silent THEN NormalizeOutputFrames(numFrames, m_sampleRate)
                                             ELSE SilentOutputFrames(numFrames, m_sampleRate))

\* ----------------------------------------------------------------- C16
\* At a native rate other than 48,000 Hz NormalizeAudio writes
\* round(n * 48000 / rate) stereo frames for n native frames.
C16_RoundedFrameCount ==
    (ad_pc = "filled" /\ ~silent /\ m_sampleRate # TargetRate) =>
        Len(m_outputBuffer) = 2 * ((2 * numFrames * TargetRate + m_sampleRate) \div (2 * m_sampleRate))

\* ----------------------------------------------------------------- C17
\* For a mono source, in any format and at any rate, every output frame of
\* NormalizeAudio has equal left and right samples.
C17_MonoLeftEqualsRight ==
    (ad_pc = "filled" /\ ~silent /\ m_channels = 1) =>
        \A i \in 1..(Len(m_outputBuffer) \div 2) : m_outputBuffer[2 * i - 1] = m_outputBuffer[2 * i]

\* ----------------------------------------------------------------- C18
\* At a native rate of 48,000 Hz NormalizeAudio writes one output frame per
\* native frame, and each output sample is the native sample of the same
\* frame and channel, clamped to full scale and scaled by 32767 / 32768 with
\* the fraction dropped: no neighbouring frame enters it.
C18_DirectAt48k ==
    (ad_pc = "filled" /\ ~silent /\ m_sampleRate = TargetRate) =>
        /\ Len(m_outputBuffer) = 2 * numFrames
        /\ \A i \in 1..numFrames : \A c \in 1..2 :
              LET x == ReadSample(m_bitsPerSample, m_isFloat,
                                  data[i][IF m_channels >= 2 THEN c ELSE 1])
                  p == Clamp(x, -FullScale, FullScale) * Int16Max
              IN  m_outputBuffer[2 * (i - 1) + c] =
                      IF p >= 0 THEN p \div FullScale ELSE -((-p) \div FullScale)

C18_Witness ==
    /\ ad_pc = "filled" /\ ~silent /\ m_sampleRate = TargetRate /\ numFrames = 480
    /\ m_channels = 2 /\ m_isFloat
    /\ \E i \in 1..numFrames :
          /\ data[i][1] > FullScale /\ m_outputBuffer[2 * i - 1] = Int16Max
          /\ data[i][2] # data[i][1]

\* ----------------------------------------------------------------- C19
\* The packet emitted for a buffer the OS marked silent has an all-zero
\* payload whose frame count is the resampled one, the count real data of the
\* same rate and frame count yields, 960 frames for 960 frames at 48,000 Hz.
C19_SilentPacket ==
    (ad_pc = "emitted" /\ silent) =>
        /\ \A i \in 1..Len(packet.payload) : packet.payload[i] = 0
        /\ packet.header.frameCount = NormalizeOutputFrames(numFrames, m_sampleRate)
        /\ (m_sampleRate = TargetRate /\ numFrames = 960) => Len(packet.payload) = 1920

\* ----------------------------------------------------------------- C13
\* For a video session initialized at width x height every invocation of
\* the frame callback passes the size width * height * 3 / 2, whatever the
\* native size and whether the frame went through the crop or the full copy.
C13_CallbackSizeIsNV12Size ==
    v_pc = "emitted" => v_call.size = (m_width * m_height * 3) \div 2

C13_Witness ==
    /\ v_pc = "emitted" /\ m_needsScaling
    /\ m_width = 2 /\ m_height = 2 /\ nativeWidth = 3 /\ nativeHeight = 3
    /\ v_call.size = 6

\* ----------------------------------------------------------------- C20
\* When the requested size differs from the native size, the texture handed
\* to colour conversion has the requested size and each of its pixels (x, y)
\* is pixel (x, y) of the captured frame: a top-left crop, never a resize.
C20_TopLeftCrop ==
    (v_pc = "copied" /\ m_needsScaling) =>
        /\ processTexture.w = m_width /\ processTexture.h = m_height
        /\ \A p \in Coords(m_width, m_height) :
              /\ p \in DOMAIN desktopTexture.pix
              /\ processTexture.pix[p] = desktopTexture.pix[p]

\* ----------------------------------------------------------------- C21
\* WindowCapturer: a frame delivery that begins once Stop has cleared the
\* running flag returns without invoking the callback, so only a delivery
\* already past that test can still invoke it; and the rest of Stop
\* unsubscribes the handler and closes the session and the frame pool
\* without waiting: a delivery in flight stays where it is.
C21_WindowStopDoesNotWait ==
    [][/\ (w_pc = "none" /\ ~m_running) => (w_pc' = "none" /\ ~WindowCallbackInvoked)
       /\ (kind = "window" /\ c_pc \in {"Stop", "dtor"} /\ c_pc' # c_pc) =>
              /\ ~subscribed' /\ ~m_session' /\ ~m_framePool' /\ ~capturing'
              /\ w_pc' = w_pc
      ]_vars

C21_Witness ==
    /\ kind = "window" /\ stopReturned /\ c_pc = "idle" /\ ~m_running
    /\ ~subscribed /\ ~m_session /\ w_pc = "emit" /\ m_callback # 0

\* ----------------------------------------------------------------- C22
\* At most one Convert call of a session's converter is in flight at any
\* time, and none while a callback is still running on the converter's
\* buffer: of the display threads and the window delivery at most one is
\* between the call of Convert and the return of the callback.
C22_OneConvertInFlight ==
    initState = "ok" =>
    Cardinality({t \in Threads : d_pc[t] \in {"convert", "emit"}})
        + (IF w_pc \in {"convert", "emit"} THEN 1 ELSE 0) <= 1

\* ----------------------------------------------------------------- C29
\* DisplayCapturer: whatever the sequence of Start and Stop calls, at most
\* one capture-loop thread of the session is alive.
C29_OneDisplayThread ==
    (kind = "display" /\ initState = "ok") =>
        Cardinality({t \in Threads : d_pc[t] # "none"}) <= 1

\* ----------------------------------------------------------------- C30
\* DisplayCapturer: when the destructor has returned the capture loop has
\* terminated, so no thread works on the members of a destroyed object.
C30_NoDisplayThreadAfterDestruction ==
    (kind = "display" /\ destroyed) => \A t \in Threads : d_pc[t] = "none"

\* ----------------------------------------------------------------- C24
\* In the resampling path of NormalizeAudio every native frame read for
\* interpolation has an index within [0, n - 1], for every native frame
\* count n >= 1 and every output index.
C24_ResampleReadsInRange ==
    (ad_pc \in {"filled", "crashed"} /\ ~silent /\ numFrames >= 1) =>
        \A d \in srcReads : d[1] = 0 /\ d[2] = 0 /\ d[3] <= numFrames - 1

\* C26: AudioCapturer capture loop: for every acquired buffer the steps come
\* in the order acquire (with timestamp and normalize or silence), emit the
\* packet to the callback, release the buffer: the step that emits leads to
\* the ReleaseBuffer call and the ReleaseBuffer call leads on to the next
\* GetNextPacketSize, so the OS buffer is released only after its packet
\* was emitted.
C26_ReleaseAfterEmit ==
    [][kind = "audio" =>
          /\ (a_pc = "getbuffer" /\ a_pc' # a_pc) => a_pc' \in {"emit", "sleep"}
          /\ (a_pc = "emit" /\ a_pc' # a_pc) => a_pc' = "release"
          /\ (a_pc = "release" /\ a_pc' # a_pc) => a_pc' = "nextsize"
      ]_vars

\* OS capture handles the session owns: the audio client, the duplication
\* handles, the graphics capture session
HandlesOwned ==
    CASE kind = "audio" -> IF m_audioClient # "null" THEN 1 ELSE 0
      [] kind = "display" -> dupHandles
      [] kind = "window" -> IF m_session THEN 1 ELSE 0

\* Capture() is between a successful Initialize and its call of Stop
InitializedNotStopped ==
    client = "main" /\ initState = "ok" /\ main_pc \in {"start", "wait", "stop"}

\* C25 as stated: from a successful Initialize until Stop the session owns
\* exactly one OS capture handle.
C25_ExactlyOneHandle == InitializedNotStopped => HandlesOwned = 1

\* C25, amended: a session never owns two handles; from a successful
\* Initialize until Stop an audio or window session owns exactly one, and a
\* display session owns exactly one until Start and afterwards one or, after
\* an access loss and until a recreation succeeds, none; the duplication
\* handles alive are exactly the one m_duplication holds, so a recreation
\* has released the previous handle before it creates the new one.
C25_AtMostOneHandle ==
    /\ HandlesOwned <= 1
    /\ kind = "display" => dupHandles = (IF m_duplication THEN 1 ELSE 0)
    /\ InitializedNotStopped =>
           \/ HandlesOwned = 1
           \/ kind = "display" /\ main_pc \in {"wait", "stop"} /\ ~m_duplication

\* a display session that lost its handle and recreated it in the current
\* tick, before Stop
C25_Witness ==
    /\ kind = "display" /\ InitializedNotStopped
    /\ \E t \in Threads : d_reinits[t] = 1 /\ d_pc[t] = "osacquire"
    /\ m_duplication /\ dupHandles = 1

\* C23: DisplayCapturer pacing: the rate limiting step advances the
\* scheduled tick by one frame period and, when that tick is still ahead,
\* sleeps at least until it; when the iteration finished at or after the
\* tick the schedule is reset to the current time; the iteration after a
\* reset is scheduled one full frame period after the reset point and sleeps
\* unless it has itself run past that, so no catch-up iterations run back
\* to back, however long the stall was.
C23_NoCatchUpBurst ==
    [][/\ (p_pc = "limit" /\ p_pc' # p_pc) =>
             /\ nextFrameTime' = nextFrameTime + frameDuration
             /\ now < nextFrameTime' => (p_pc' = "sleeping" /\ wakeAt' >= nextFrameTime')
             /\ now >= nextFrameTime' => p_pc' = "behind"
             /\ resetAt >= 0 =>
                    /\ nextFrameTime' = resetAt + frameDuration
                    /\ now < resetAt + frameDuration => p_pc' = "sleeping"
       /\ (p_pc = "sleeping" /\ p_pc' # p_pc) => (now >= nextFrameTime /\ nextFrameTime' = nextFrameTime)
       /\ (p_pc = "behind" /\ p_pc' # p_pc) => (nextFrameTime' = now /\ p_pc' = "check")
      ]_vars

\* an iteration stalled for two frame periods or more, the schedule was
\* reset, and the next iteration sleeps towards the reset point plus one
\* period
C23_Witness ==
    /\ p_pc = "sleeping" /\ resetAt >= 2 * frameDuration
    /\ nextFrameTime = resetAt + frameDuration /\ now < nextFrameTime

\* C28: the timestamps passed to successive callback invocations of one
\* session (since its Start) are non-decreasing, and the timestamp of an
\* audio buffer is the number of milliseconds between the session's Start
\* and the moment the buffer was acquired.
C28_TimestampsNonDecreasing ==
    [][initState = "ok" =>
          /\ (kind = "audio" /\ a_pc = "getbuffer" /\ a_pc' = "release") =>
                 a_timestamp' = ((now - m_startTime) * 1000) \div QpcFrequency
          /\ (kind = "audio" /\ AudioCallbackInvoked) => lastTimestamp <= a_timestamp
          /\ \A t \in Threads :
                 (kind = "display" /\ d_pc[t] = "emit" /\ d_pc'[t] # "emit" /\ m_callback # 0) =>
                     lastTimestamp <= d_timestamp[t]
      ]_vars

\* position of a display thread within its tick
TickRank(pc) ==
    CASE pc = "check" -> 0 [] pc = "acquire" -> 1 [] pc = "osacquire" -> 2 [] pc = "copy" -> 3
      [] pc = "convert" -> 4 [] pc = "emit" -> 5 [] pc = "pace" -> 6 [] OTHER -> 7

\* C27: after Stop on a display session, with no later Start, every capture
\* thread of it eventually exits, and it does so at its next test of the
\* flag: a tick only moves forward (one acquisition attempt, one pacing
\* sleep) to that test.  On an audio session a Stop that waits for the
\* thread eventually returns with the thread out of its loop; the loop
\* leaves its packet draining and its outer loop at the next test of the
\* flag.  All this unless the process has crashed.
C27_LoopExitsAfterStop ==
    /\ (kind = "display" /\ stopReturned) ~>
           (~stopReturned \/ fault = "crashed" \/ \A t \in Threads : d_pc[t] = "none")
    /\ (kind = "audio" /\ c_pc = "Stop") ~>
           (fault = "crashed" \/ (c_pc = "idle" /\ stopReturned /\ a_pc = "none"))
    /\ [][/\ \A t \in Threads :
                (kind = "display" /\ d_pc'[t] # d_pc[t] /\ d_pc[t] # "none") =>
                    \/ TickRank(d_pc'[t]) > TickRank(d_pc[t]) /\ d_pc[t] # "check"
                    \/ d_pc[t] = "pace" /\ d_pc'[t] = "check"
                    \/ d_pc[t] = "check" /\ d_pc'[t] = (IF m_running THEN "acquire" ELSE "none")
          /\ (kind = "audio" /\ ~m_running /\ a_pc = "inner" /\ a_pc' # a_pc) => a_pc' = "sleep"
          /\ (kind = "audio" /\ ~m_running /\ a_pc = "check" /\ a_pc' # a_pc) => a_pc' = "none"
         ]_vars

\* an audio Stop has returned after waiting for a thread that was draining
\* packets when the flag was cleared
C27_Witness ==
    /\ kind = "audio" /\ initState = "ok" /\ stopReturned /\ c_pc = "idle"
    /\ loopExit = "stopped" /\ a_pc = "none" /\ packetLength /\ m_captureThread = "none"

\* C31: the capture code that invokes the user callback runs only once
\* Start has stored the callback and set the running flag: as long as no
\* Start has stored a callback the flag is false, no capture thread exists
\* and no frame delivery is past its flag test, so a delivery that arrives
\* after Initialize and before Start has returned without a callback.
C31_CallbackOnlyAfterStart ==
    m_callback = 0 =>
        /\ ~m_running
        /\ a_pc = "none"
        /\ \A t \in Threads : d_pc[t] = "none"
        /\ w_pc = "none"

\* a window session that Initialize subscribed to the frame pool and that
\* was not started: deliveries arrive and find the flag false
C31_Witness ==
    /\ kind = "window" /\ initState = "ok" /\ subscribed /\ m_session
    /\ w_pc = "none" /\ lastCall = "none" /\ m_callback = 0 /\ ~m_running

\* the last Start of an audio session passed its guard and returned with the
\* flag cleared (the OS stream did not start), and no call is in progress
AudioStartFailed ==
    kind = "audio" /\ lastCall = "started" /\ ~m_running /\ c_pc = "idle" /\ fault = "none"

\* C32: AudioCapturer: after a Start whose OS stream failed to start the
\* session is not running (IsRunning() is false), has no capture thread and
\* nothing to join, no step invokes the callback, and a Stop or a
\* destructor called next returns at once and changes nothing.
C32_FailedStartLeavesNothing ==
    [][AudioStartFailed =>
          /\ a_pc = "none" /\ ~Joinable(m_captureThread)
          /\ ~AudioCallbackInvoked
          /\ (stopReturned' \/ c_pc' # c_pc) =>
                 /\ stopReturned' /\ c_pc' \in {"idle", "dtorEnd"}
                 /\ UNCHANGED objectVars
      ]_vars

\* Start failed on an initialized audio session that had run and been
\* stopped before
C32_Witness ==
    /\ AudioStartFailed /\ initState = "ok" /\ m_callback # 0
    /\ m_audioClient = "ready" /\ loopExit = "stopped"
\* ----------------------------------------------------------------- C33
\* DisplayCapturer::AcquireNextFrame: a frame acquired from the duplication
\* handle stays outstanding until the function itself releases it, which
\* every return after the acquisition does; a return after a timeout, an
\* access-loss or a failure of the acquisition releases nothing; at most
\* one frame is outstanding at any time.
C33_FrameReleasedOnce ==
    [][\A t \in Threads :
          /\ d_pc[t] = "copy" => (t \in framesOut /\ fault' = fault)
          /\ (d_pc[t] = "copy" /\ d_pc'[t] # "copy") => framesOut' = framesOut \ {t}
          /\ (d_pc[t] = "osacquire" /\ d_pc'[t] = "pace") =>
                \/ framesOut' = framesOut
                \/ d_hr'[t] = "lost" /\ framesOut' = {}
          /\ Cardinality(framesOut) <= 1
      ]_vars

\* ----------------------------------------------------------------- C34
\* GpuColorConverter::Convert: whatever the width, the height (odd ones
\* too) and the row pitch of the mapped texture, the bytes written are
\* those of height rows of width bytes from offset 0 and height/2 rows of
\* width bytes from offset width*height, each written once, and all of them
\* lie within the width*height*3/2 bytes of the output buffer.
C34_WritesWithinBuffer ==
    v_pc = "emitted" =>
        LET written == {c[1] : c \in nv12Copies}
        IN  /\ \A b \in written : 0 <= b /\ b < m_nv12Size
            /\ written = 0..(m_width * m_height + (m_height \div 2) * m_width - 1)
            /\ Cardinality(nv12Copies) = Cardinality(written)
            /\ m_nv12Size = (m_width * m_height * 3) \div 2

\* an odd width and an odd height, rows padded by the driver
C34_Witness ==
    /\ v_pc = "emitted"
    /\ m_width = 3 /\ m_height = 3
    /\ <<11, 14>> \in nv12Copies

\* ----------------------------------------------------------------- C35
\* WindowCapturer: once Stop has closed and cleared the capture session of
\* an initialized object, a Start without a new Initialize is rejected or
\* leaves the object non-running: no step makes the object running or
\* calls StartCapture (which faults or fails) while the session handle is
\* cleared.
C35_NoStartOnClearedSession ==
    [][(kind = "window" /\ initState = "ok" /\ stopReturned /\ ~m_session /\ c_pc = "idle"
            /\ lastCall' \in {"started", "rejected"}) =>
          /\ ~m_running'
          /\ fault' = fault
      ]_vars

\* ----------------------------------------------------------------- C36
\* Linux renderer C API: however va_decoder_destroy interleaves with
\* another operation on the same handle from another thread, no operation
\* runs on a decoder that va_decoder_destroy has freed.
C36_NoUseAfterFree ==
    platform = "linux" => r_fault # "uaf"

\* a call of an operation or of destroy with handle h starts in this step:
\* it returns in the same step, or the calling thread goes on past the lookup
CallStarts(h) ==
    \/ /\ r_pc' = r_pc /\ r_ret' # r_ret
       /\ r_ret'.op # "create" /\ r_ret'.h = h
    \/ \E t \in Callers : r_pc[t] = Idle /\ r_pc'[t] # Idle /\ r_pc'[t].dec = h

\* ----------------------------------------------------------------- C37
\* Renderer C APIs, both libraries: a call given NULL or a handle the
\* registry does not hold when the call looks it up (never created, or
\* destroyed before) returns false, NULL or nothing in that step, reaches no
\* decoder and leaves the registry and every decoder as they were; so the
\* second destroy of a handle frees nothing, and no decoder is freed twice.
C37_UnknownHandleIsNoOp ==
    [][/\ \A h \in 0..MaxHandles :
             (CallStarts(h) /\ (h = NullHandle \/ h \notin s_instances)) =>
                /\ r_ret'.res \in {"false", "null", "void"}
                /\ UNCHANGED <<s_instances, heap, r_pc, r_fault>>
       /\ r_fault' # "doublefree"
      ]_vars

\* a second destroy of a handle has returned while the first, which took
\* the handle out of the registry, has not yet freed the decoder
C37_Witness ==
    /\ platform # "off"
    /\ r_pc["t1"] = [op |-> "destroy", dec |-> 1, cfg |-> 0]
    /\ r_pc["t2"] = Idle
    /\ r_ret = [op |-> "destroy", h |-> 1, res |-> "void"]
    /\ heap[1].alloc /\ heap[1].initialized /\ 1 \notin s_instances

\* the call on decoder h that returns in this step
CallReturns(op, h) ==
    r_ret' # r_ret /\ r_ret'.op = op /\ r_ret'.h = h

====
